---- MODULE Spec2Model ----
(***************************************************************************)
(* CoordinateSystem (Coordinates/CoordinateSystem.cc): the composite that  *)
(* owns a sequence of sub-coordinates and, for each, a world map, a pixel  *)
(* map, replacement values for removed axes and two scratch vectors.       *)
(*                                                                         *)
(* Axis numbers are 0-based as in the source (-1 marks a removed axis);    *)
(* TLA+ sequences are 1-based, so element j of a C++ vector is v[j + 1].   *)
(* An operation that throws AipsError (AlwaysAssert) is a result with      *)
(* ok = FALSE; every AlwaysAssert of the operations modelled here comes    *)
(* before the first write, so the object is then as it was.                *)
(***************************************************************************)
EXTENDS Integers, Sequences, FiniteSets, TLC

\* Bounds of the model.
MaxCoords == 2          \* sub-coordinates in one system
MaxAxes == 3            \* world (= pixel) axes of all sub-coordinates together
MaxAxesT == 2           \* the same, for the systems the transforms are run on
MaxRemoved == 2         \* axes (world and pixel together) removed from one system
MaxVal == 1             \* pixel and world inputs are drawn from 0..MaxVal

\* The content of a Vector<Double>(n) element that was never written: an
\* indeterminate value, different from every number the model computes.
Undef == -999

Vals == 0..MaxVal
ReplVals == {17, 18}    \* replacement values handed to removeWorldAxis / removePixelAxis

(***************************************************************************)
(* Sub-coordinates.  The concrete classes (DirectionCoordinate, ...) are   *)
(* external to CoordinateSystem.cc; they are used through the Coordinate   *)
(* interface only.  A sub-coordinate is a record of its axis descriptors;  *)
(* its transform is the linear one of the descriptors, except Stokes,      *)
(* which looks the pixel up in its list of Stokes values.  error_p is the   *)
(* last-error slot of Coordinate: a message is a tuple of its text and the *)
(* value it is about, no message the empty tuple.                          *)
(***************************************************************************)
Direction ==
    [type |-> "DIRECTION",
     worldAxisNames |-> <<"long", "lat">>,
     worldAxisUnits |-> <<"rad", "rad">>,
     referenceValue |-> <<10, 20>>,
     referencePixel |-> <<1, 2>>,
     increment |-> <<-1, 1>>,
     linearTransform |-> << <<1, 1>>, <<0, 1>> >>,
     stokes |-> << >>,
     error_p |-> << >>]

Spectral ==
    [type |-> "SPECTRAL",
     worldAxisNames |-> <<"freq">>,
     worldAxisUnits |-> <<"Hz">>,
     referenceValue |-> <<30>>,
     referencePixel |-> <<1>>,
     increment |-> <<-1>>,
     linearTransform |-> << <<1>> >>,
     stokes |-> << >>,
     error_p |-> << >>]

Stokes ==
    [type |-> "STOKES",
     worldAxisNames |-> <<"stokes">>,
     worldAxisUnits |-> <<"">>,
     referenceValue |-> <<1>>,
     referencePixel |-> <<0>>,
     increment |-> <<1>>,
     linearTransform |-> << <<1>> >>,
     stokes |-> <<1>>,
     error_p |-> << >>]

\* The two-axis identity LinearCoordinate.
Linear ==
    [type |-> "LINEAR",
     worldAxisNames |-> <<"x", "y">>,
     worldAxisUnits |-> <<"km", "km">>,
     referenceValue |-> <<0, 0>>,
     referencePixel |-> <<0, 0>>,
     increment |-> <<1, 1>>,
     linearTransform |-> << <<1, 0>>, <<0, 1>> >>,
     stokes |-> << >>,
     error_p |-> << >>]

\* The sub-coordinates the systems are built from; the transforms are also run
\* on a StokesCoordinate, whose transform fails off its list.
Catalogue == {Direction, Spectral, Linear}

CatalogueT == Catalogue \cup {Stokes}

CoordNWorldAxes(c) == Len(c.worldAxisNames)
CoordNPixelAxes(c) == Len(c.referencePixel)

\* Coordinate::clone(): a deep copy.
Clone(c) == c

(***************************************************************************)
(* Small helpers on vectors.                                               *)
(***************************************************************************)
RECURSIVE SumSeq(_)
SumSeq(s) == IF s = << >> THEN 0 ELSE Head(s) + SumSeq(Tail(s))

\* Vector<Double>(n): n elements, none of them written.
NewVector(n) == [j \in 1..n |-> Undef]

\* The elements of all the maps of a system, as (coordinate, axis) positions (1-based).
Positions(maps) == UNION {{<<i, j>> : j \in 1..Len(maps[i])} : i \in 1..Len(maps)}

\* cs is the CoordinateSystem object, last the operation called last and whether
\* it returned (ok) or threw.  given is a history variable: for every axis of
\* every sub-coordinate the replacement value that was handed to the
\* removeWorldAxis / removePixelAxis call that removed it (Undef: not removed).
\* pix is the file-static Vector<Double> pix of CoordinateSystem.cc, one for
\* the process; threads holds, for each thread, the clone it works on and
\* where it is in the call it runs.
VARIABLES cs, last, given, pix, threads

Threads == {1, 2}

vars == <<cs, last, given, pix, threads>>

\* CoordinateSystem::CoordinateSystem(): all seven blocks have no element, and
\* the last-error slot of the Coordinate base is the empty String.
EmptySystem ==
    [coordinates_p |-> << >>,
     world_maps_p |-> << >>,
     world_tmps_p |-> << >>,
     world_replacement_values_p |-> << >>,
     pixel_maps_p |-> << >>,
     pixel_tmps_p |-> << >>,
     pixel_replacement_values_p |-> << >>,
     error_p |-> << >>]

\* CoordinateSystem::nCoordinates
nCoordinates(s) == Len(s.coordinates_p)

\* CoordinateSystem::nWorldAxes / nPixelAxes: the map entries that are >= 0, counted.
CountExposed(maps) ==
    SumSeq([i \in 1..Len(maps) |-> Cardinality({j \in 1..Len(maps[i]) : maps[i][j] >= 0})])

nWorldAxes(s) == CountExposed(s.world_maps_p)

nPixelAxes(s) == CountExposed(s.pixel_maps_p)

\* The scan of findWorldAxis / findPixelAxis: the first (coordinate, axis) in
\* coordinate-major order whose map entry is orig, (-1, -1) when there is none.
ScanMaps(maps, orig) ==
    LET Hit(i) == {j \in 1..Len(maps[i]) : maps[i][j] = orig}
        is == {i \in 1..Len(maps) : Hit(i) /= {}}
    IN  IF is = {}
        THEN [coordinate |-> -1, axisInCoordinate |-> -1]
        ELSE LET i == CHOOSE i1 \in is : \A i2 \in is : i1 <= i2
                 j == CHOOSE j1 \in Hit(i) : \A j2 \in Hit(i) : j1 <= j2
             IN  [coordinate |-> i - 1, axisInCoordinate |-> j - 1]

\* A findWorldAxis without its AlwaysAssert.
findWorldAxisNoAssert(s, axisInCoordinateSystem) ==
    [ok |-> TRUE] @@ ScanMaps(s.world_maps_p, axisInCoordinateSystem)

\* CoordinateSystem::findWorldAxis: throws unless the axis is < nWorldAxes().
findWorldAxis(s, axisInCoordinateSystem) ==
    IF ~(axisInCoordinateSystem < nWorldAxes(s))
    THEN [ok |-> FALSE, coordinate |-> -1, axisInCoordinate |-> -1]
    ELSE [ok |-> TRUE] @@ ScanMaps(s.world_maps_p, axisInCoordinateSystem)

\* A findPixelAxis without its assertion.
findPixelAxisNoAssert(s, axisInCoordinateSystem) ==
    [ok |-> TRUE] @@ ScanMaps(s.pixel_maps_p, axisInCoordinateSystem)

\* CoordinateSystem::findPixelAxis
findPixelAxis(s, axisInCoordinateSystem) ==
    IF ~(axisInCoordinateSystem < nPixelAxes(s))
    THEN [ok |-> FALSE, coordinate |-> -1, axisInCoordinate |-> -1]
    ELSE [ok |-> TRUE] @@ ScanMaps(s.pixel_maps_p, axisInCoordinateSystem)

\* An operation that threw before it wrote anything.
Throw(s) == [ok |-> FALSE, cs |-> s]

Done(s) == [ok |-> TRUE, cs |-> s]

\* An addCoordinate that numbers the new axes after all the axes of the
\* sub-coordinates, the removed ones included.
addCoordinateAfterAll(s, coord) ==
    LET oldAxes == SumSeq([i \in 1..Len(s.coordinates_p) |->
                              CoordNWorldAxes(s.coordinates_p[i])])
        nw == CoordNWorldAxes(coord)
        np == CoordNPixelAxes(coord)
    IN  [coordinates_p |-> Append(s.coordinates_p, Clone(coord)),
         world_maps_p |-> Append(s.world_maps_p, [i \in 1..nw |-> oldAxes + (i - 1)]),
         world_tmps_p |-> Append(s.world_tmps_p, NewVector(nw)),
         world_replacement_values_p |-> Append(s.world_replacement_values_p, NewVector(nw)),
         pixel_maps_p |-> Append(s.pixel_maps_p, [i \in 1..np |-> oldAxes + (i - 1)]),
         pixel_tmps_p |-> Append(s.pixel_tmps_p, NewVector(np)),
         pixel_replacement_values_p |-> Append(s.pixel_replacement_values_p, NewVector(np)),
         error_p |-> s.error_p]

\* CoordinateSystem::addCoordinate
addCoordinate(s, coord) ==
    LET oldWorldAxes == nWorldAxes(s)
        oldPixelAxes == nPixelAxes(s)
        nw == CoordNWorldAxes(coord)
        np == CoordNPixelAxes(coord)
    IN  [coordinates_p |-> Append(s.coordinates_p, Clone(coord)),
         world_maps_p |-> Append(s.world_maps_p, [i \in 1..nw |-> oldWorldAxes + (i - 1)]),
         world_tmps_p |-> Append(s.world_tmps_p, NewVector(nw)),
         world_replacement_values_p |-> Append(s.world_replacement_values_p, NewVector(nw)),
         pixel_maps_p |-> Append(s.pixel_maps_p, [i \in 1..np |-> oldPixelAxes + (i - 1)]),
         pixel_tmps_p |-> Append(s.pixel_tmps_p, NewVector(np)),
         pixel_replacement_values_p |-> Append(s.pixel_replacement_values_p, NewVector(np)),
         error_p |-> s.error_p]

\* A validation that does not look for repeated axes.
RECURSIVE OrderInRange(_, _, _, _)
OrderInRange(order, n, i, found) ==
    IF i >= n
    THEN TRUE
    ELSE LET which == order[i + 1]
         IN  IF which >= 0 /\ which < n
             THEN OrderInRange(order, n, i + 1, found \cup {which})
             ELSE FALSE

\* CoordinateSystem::transpose, lines 203-217: every axis is in the order once
\* (only); i is the loop index, found the elements of the Block<Bool> that are True.
RECURSIVE OrderIsValid(_, _, _, _)
OrderIsValid(order, n, i, found) ==
    IF i >= n
    THEN TRUE
    ELSE LET which == order[i + 1]
         IN  IF which >= 0 /\ which < n /\ which \notin found
             THEN OrderIsValid(order, n, i + 1, found \cup {which})
             ELSE FALSE

\* A transpose that writes the old index of the axis instead of its new one.
RECURSIVE MoveWorldAxesOldIndex(_, _, _, _)
MoveWorldAxesOldIndex(s, newWorldMaps, newWorldOrder, i) ==
    IF i >= Len(newWorldOrder)
    THEN newWorldMaps
    ELSE LET f == findWorldAxis(s, i)
         IN  MoveWorldAxesOldIndex(s,
                 [newWorldMaps EXCEPT ![f.coordinate + 1][f.axisInCoordinate + 1] =
                                          newWorldOrder[i + 1]],
                 newWorldOrder, i + 1)

\* CoordinateSystem::transpose, lines 231-236: "Move the world axes to their new home".
RECURSIVE MoveWorldAxes(_, _, _, _)
MoveWorldAxes(s, newWorldMaps, newWorldOrder, i) ==
    IF i >= Len(newWorldOrder)
    THEN newWorldMaps
    ELSE LET f == findWorldAxis(s, newWorldOrder[i + 1])
         IN  MoveWorldAxes(s,
                 [newWorldMaps EXCEPT ![f.coordinate + 1][f.axisInCoordinate + 1] = i],
                 newWorldOrder, i + 1)

\* A transpose whose pixel loop starts at 1.
RECURSIVE MovePixelAxesFromOne(_, _, _, _)
MovePixelAxesFromOne(s, newPixelMaps, newPixelOrder, i) ==
    IF i >= Len(newPixelOrder)
    THEN newPixelMaps
    ELSE LET f == findPixelAxis(s, newPixelOrder[i + 1])
         IN  MovePixelAxesFromOne(s,
                 IF i = 0
                 THEN newPixelMaps
                 ELSE [newPixelMaps EXCEPT ![f.coordinate + 1][f.axisInCoordinate + 1] = i],
                 newPixelOrder, i + 1)

\* CoordinateSystem::transpose, lines 238-243: "Move the pixel axes to their new home".
RECURSIVE MovePixelAxes(_, _, _, _)
MovePixelAxes(s, newPixelMaps, newPixelOrder, i) ==
    IF i >= Len(newPixelOrder)
    THEN newPixelMaps
    ELSE LET f == findPixelAxis(s, newPixelOrder[i + 1])
         IN  MovePixelAxes(s,
                 [newPixelMaps EXCEPT ![f.coordinate + 1][f.axisInCoordinate + 1] = i],
                 newPixelOrder, i + 1)

\* CoordinateSystem::transpose
transpose(s, newWorldOrder, newPixelOrder) ==
    IF ~(Len(newWorldOrder) = nWorldAxes(s)) THEN Throw(s)
    ELSE IF ~(Len(newPixelOrder) = nPixelAxes(s)) THEN Throw(s)
    ELSE IF ~OrderIsValid(newWorldOrder, Len(newWorldOrder), 0, {}) THEN Throw(s)
    ELSE IF ~OrderIsValid(newPixelOrder, Len(newPixelOrder), 0, {}) THEN Throw(s)
    ELSE Done([s EXCEPT
                 !.world_maps_p = MoveWorldAxes(s, s.world_maps_p, newWorldOrder, 0),
                 !.pixel_maps_p = MovePixelAxes(s, s.pixel_maps_p, newPixelOrder, 0)])

\* A removal that does not renumber the axes behind the removed one.
ShiftDownNone(maps, axis) == maps

\* removeWorldAxis / removePixelAxis, lines 266-272 and 286-292: every entry
\* greater than the removed axis moves down by one.
ShiftDown(maps, axis) ==
    [i \in 1..Len(maps) |->
        [j \in 1..Len(maps[i]) |->
            IF maps[i][j] > axis THEN maps[i][j] - 1 ELSE maps[i][j]]]

\* CoordinateSystem::removeWorldAxis
removeWorldAxis(s, axis, replacement) ==
    IF ~(axis <= nWorldAxes(s)) THEN Throw(s)
    ELSE LET f == findWorldAxis(s, axis)
             coord == f.coordinate + 1
             caxis == f.axisInCoordinate + 1
         IN  IF ~f.ok THEN Throw(s)
             ELSE Done([s EXCEPT
                     !.world_replacement_values_p[coord][caxis] = replacement,
                     !.world_maps_p =
                         ShiftDown([s.world_maps_p EXCEPT ![coord][caxis] = -1], axis)])

\* A removePixelAxis that does not store the replacement value.
removePixelAxisNoValue(s, axis, replacement) ==
    IF ~(axis <= nPixelAxes(s)) THEN Throw(s)
    ELSE LET f == findPixelAxis(s, axis)
             coord == f.coordinate + 1
             caxis == f.axisInCoordinate + 1
         IN  IF ~f.ok THEN Throw(s)
             ELSE Done([s EXCEPT
                     !.pixel_maps_p =
                         ShiftDown([s.pixel_maps_p EXCEPT ![coord][caxis] = -1], axis)])

\* CoordinateSystem::removePixelAxis
removePixelAxis(s, axis, replacement) ==
    IF ~(axis <= nPixelAxes(s)) THEN Throw(s)
    ELSE LET f == findPixelAxis(s, axis)
             coord == f.coordinate + 1
             caxis == f.axisInCoordinate + 1
         IN  IF ~f.ok THEN Throw(s)
             ELSE Done([s EXCEPT
                     !.pixel_replacement_values_p[coord][caxis] = replacement,
                     !.pixel_maps_p =
                         ShiftDown([s.pixel_maps_p EXCEPT ![coord][caxis] = -1], axis)])

\* CoordinateSystem::replaceCoordinate
replaceCoordinate(s, newCoordinate, which) ==
    IF ~(/\ which < nCoordinates(s)
         /\ CoordNPixelAxes(newCoordinate) = CoordNPixelAxes(s.coordinates_p[which + 1])
         /\ CoordNWorldAxes(newCoordinate) = CoordNWorldAxes(s.coordinates_p[which + 1]))
    THEN Throw(s)
    ELSE Done([s EXCEPT !.coordinates_p[which + 1] = Clone(newCoordinate)])

\* A copy that makes new replacement vectors instead of copying them.
copyNoReplacement(other) ==
    LET n == Len(other.coordinates_p)
    IN  [coordinates_p |-> [i \in 1..n |-> Clone(other.coordinates_p[i])],
         world_maps_p |-> [i \in 1..n |-> other.world_maps_p[i]],
         world_tmps_p |-> [i \in 1..n |-> other.world_tmps_p[i]],
         world_replacement_values_p |->
             [i \in 1..n |-> NewVector(Len(other.world_replacement_values_p[i]))],
         pixel_maps_p |-> [i \in 1..n |-> other.pixel_maps_p[i]],
         pixel_tmps_p |-> [i \in 1..n |-> other.pixel_tmps_p[i]],
         pixel_replacement_values_p |->
             [i \in 1..n |-> NewVector(Len(other.pixel_replacement_values_p[i]))],
         error_p |-> << >>]

\* CoordinateSystem::copy (after clear()): the sub-coordinates are cloned and
\* the six blocks are copied element by element from other.  error_p is not
\* copied: the copy constructor starts from Coordinate(), whose slot is empty.
copy(other) ==
    LET n == Len(other.coordinates_p)
    IN  [coordinates_p |-> [i \in 1..n |-> Clone(other.coordinates_p[i])],
         world_maps_p |-> [i \in 1..n |-> other.world_maps_p[i]],
         world_tmps_p |-> [i \in 1..n |-> other.world_tmps_p[i]],
         world_replacement_values_p |-> [i \in 1..n |-> other.world_replacement_values_p[i]],
         pixel_maps_p |-> [i \in 1..n |-> other.pixel_maps_p[i]],
         pixel_tmps_p |-> [i \in 1..n |-> other.pixel_tmps_p[i]],
         pixel_replacement_values_p |-> [i \in 1..n |-> other.pixel_replacement_values_p[i]],
         error_p |-> << >>]

\* CoordinateSystem::restoreOriginal: the sub-coordinates are added, in stored
\* order, to an empty system, which is then assigned to this one.
RECURSIVE AddAll(_, _, _)
AddAll(coord, coordinates, i) ==
    IF i >= Len(coordinates)
    THEN coord
    ELSE AddAll(addCoordinate(coord, coordinates[i + 1]), coordinates, i + 1)

restoreOriginal(s) ==
    [copy(AddAll(EmptySystem, s.coordinates_p, 0)) EXCEPT !.error_p = s.error_p]

(***************************************************************************)
(* The transforms of the sub-coordinates (Coordinate::toWorld / toPixel of *)
(* the concrete classes): world = referenceValue + increment * (PC *       *)
(* (pixel - referencePixel)) and its inverse; a StokesCoordinate maps the  *)
(* pixel to the Stokes value at that index and fails off its list.  A call *)
(* that fails leaves the output vector as it was.                          *)
(***************************************************************************)
MatVec(m, v) == [j \in 1..Len(m) |-> SumSeq([k \in 1..Len(v) |-> m[j][k] * v[k]])]

Det(m) == IF Len(m) = 1 THEN m[1][1] ELSE m[1][1] * m[2][2] - m[1][2] * m[2][1]

Adjugate(m) ==
    IF Len(m) = 1
    THEN << <<1>> >>
    ELSE << <<m[2][2], 0 - m[1][2]>>, <<0 - m[2][1], m[1][1]>> >>

Abs(x) == IF x < 0 THEN 0 - x ELSE x

IsMultiple(x, d) == d /= 0 /\ Abs(x) % Abs(d) = 0

\* x / d for a multiple x of d.
Quotient(x, d) == IF (x < 0) = (d < 0) THEN Abs(x) \div Abs(d) ELSE 0 - (Abs(x) \div Abs(d))

CoordToWorld(c, pixel) ==
    IF c.type = "STOKES"
    THEN IF pixel[1] \in 0..(Len(c.stokes) - 1)
         THEN [ok |-> TRUE, world |-> <<c.stokes[pixel[1] + 1]>>, error |-> << >>]
         ELSE [ok |-> FALSE, world |-> << >>,
               error |-> <<"toWorld: pixel is off the Stokes axis", pixel[1]>>]
    ELSE LET offset == [k \in 1..Len(pixel) |-> pixel[k] - c.referencePixel[k]]
             lin == MatVec(c.linearTransform, offset)
         IN  [ok |-> TRUE,
              world |-> [j \in 1..Len(lin) |-> c.referenceValue[j] + c.increment[j] * lin[j]],
              error |-> << >>]

CoordToPixel(c, world) ==
    IF c.type = "STOKES"
    THEN IF \E k \in 1..Len(c.stokes) : c.stokes[k] = world[1]
         THEN [ok |-> TRUE,
               pixel |-> <<(CHOOSE k \in 1..Len(c.stokes) : c.stokes[k] = world[1]) - 1>>,
               error |-> << >>]
         ELSE [ok |-> FALSE, pixel |-> << >>,
               error |-> <<"toPixel: not a Stokes value of the axis", world[1]>>]
    ELSE LET n == Len(world)
             d == Det(c.linearTransform)
             exact == /\ \A j \in 1..n : IsMultiple(world[j] - c.referenceValue[j], c.increment[j])
                      /\ d /= 0
             lin == [j \in 1..n |-> Quotient(world[j] - c.referenceValue[j], c.increment[j])]
             num == MatVec(Adjugate(c.linearTransform), lin)
         IN  IF exact /\ \A k \in 1..n : IsMultiple(num[k], d)
             THEN [ok |-> TRUE,
                   pixel |-> [k \in 1..n |-> c.referencePixel[k] + Quotient(num[k], d)],
                   error |-> << >>]
             ELSE [ok |-> FALSE, pixel |-> << >>,
                   error |-> <<"toPixel: no pixel for this world value", world[1]>>]

\* The loops "for j: if (where >= 0) out(where) = tmp(j)" of toWorld and
\* toPixel: element k of the caller's vector after them (a later j wins).
Scatter(out, map, tmp) ==
    [k \in 1..Len(out) |->
        LET js == {j \in 1..Len(map) : map[j] = k - 1}
        IN  IF js = {} THEN out[k] ELSE tmp[CHOOSE j \in js : \A j2 \in js : j2 <= j]]

\* The loops "for j: tmp(j) = where >= 0 ? in(where) : replacement(j)".
Gather(in, map, replacement) ==
    [j \in 1..Len(map) |-> IF map[j] >= 0 THEN in[map[j] + 1] ELSE replacement[j]]

\* A toWorld that writes the world replacement value of a removed world axis
\* into the world temporary.
RECURSIVE toWorldFromReplacing(_, _, _, _, _)
toWorldFromReplacing(s, pixel, i, ok, world) ==
    IF i >= Len(s.coordinates_p)
    THEN [ok |-> ok, world |-> world, cs |-> s]
    ELSE LET pixtmp == Gather(pixel, s.pixel_maps_p[i + 1], s.pixel_replacement_values_p[i + 1])
             r == CoordToWorld(s.coordinates_p[i + 1], pixtmp)
             wm == s.world_maps_p[i + 1]
             wtmp == IF ok /\ r.ok
                     THEN [j \in 1..Len(wm) |->
                              IF wm[j] >= 0
                              THEN r.world[j]
                              ELSE s.world_replacement_values_p[i + 1][j]]
                     ELSE s.world_tmps_p[i + 1]
         IN  toWorldFromReplacing([s EXCEPT !.pixel_tmps_p[i + 1] = pixtmp,
                                            !.world_tmps_p[i + 1] = wtmp],
                         pixel, i + 1, ok /\ r.ok, Scatter(world, wm, wtmp))

\* CoordinateSystem::toWorld(Vector<Double> &world, const Vector<Double> &pixel),
\* the loop over the sub-coordinates from i on.  "ok && coordinates_p[i]->toWorld(..)"
\* calls the sub-coordinate only while ok is still True; world_tmps_p[i] is
\* otherwise what it was.  A sub-coordinate that is called and fails sets its
\* own error_p; nothing here writes the error_p of the system.
RECURSIVE toWorldFrom(_, _, _, _, _)
toWorldFrom(s, pixel, i, ok, world) ==
    IF i >= Len(s.coordinates_p)
    THEN [ok |-> ok, world |-> world, cs |-> s]
    ELSE LET pixtmp == Gather(pixel, s.pixel_maps_p[i + 1], s.pixel_replacement_values_p[i + 1])
             r == CoordToWorld(s.coordinates_p[i + 1], pixtmp)
             wtmp == IF ok /\ r.ok THEN r.world ELSE s.world_tmps_p[i + 1]
             err == IF ok /\ ~r.ok THEN r.error ELSE s.coordinates_p[i + 1].error_p
         IN  toWorldFrom([s EXCEPT !.pixel_tmps_p[i + 1] = pixtmp,
                                   !.world_tmps_p[i + 1] = wtmp,
                                   !.coordinates_p[i + 1].error_p = err],
                         pixel, i + 1, ok /\ r.ok,
                         Scatter(world, s.world_maps_p[i + 1], wtmp))

\* The caller's world vector has nWorldAxes() elements, none written yet.
toWorld(s, pixel) == toWorldFrom(s, pixel, 0, TRUE, NewVector(nWorldAxes(s)))

\* A toPixel that copies the pixel temporary out through the world map.
RECURSIVE toPixelFromWorldMap(_, _, _, _, _)
toPixelFromWorldMap(s, world, i, ok, pixel) ==
    IF i >= Len(s.coordinates_p)
    THEN [ok |-> ok, pixel |-> pixel, cs |-> s]
    ELSE LET wtmp == Gather(world, s.world_maps_p[i + 1], s.world_replacement_values_p[i + 1])
             r == CoordToPixel(s.coordinates_p[i + 1], wtmp)
             pixtmp == IF ok /\ r.ok THEN r.pixel ELSE s.pixel_tmps_p[i + 1]
         IN  toPixelFromWorldMap([s EXCEPT !.world_tmps_p[i + 1] = wtmp,
                                           !.pixel_tmps_p[i + 1] = pixtmp],
                         world, i + 1, ok /\ r.ok,
                         Scatter(pixel, s.world_maps_p[i + 1], pixtmp))

\* CoordinateSystem::toPixel
RECURSIVE toPixelFrom(_, _, _, _, _)
toPixelFrom(s, world, i, ok, pixel) ==
    IF i >= Len(s.coordinates_p)
    THEN [ok |-> ok, pixel |-> pixel, cs |-> s]
    ELSE LET wtmp == Gather(world, s.world_maps_p[i + 1], s.world_replacement_values_p[i + 1])
             r == CoordToPixel(s.coordinates_p[i + 1], wtmp)
             pixtmp == IF ok /\ r.ok THEN r.pixel ELSE s.pixel_tmps_p[i + 1]
             err == IF ok /\ ~r.ok THEN r.error ELSE s.coordinates_p[i + 1].error_p
         IN  toPixelFrom([s EXCEPT !.world_tmps_p[i + 1] = wtmp,
                                   !.pixel_tmps_p[i + 1] = pixtmp,
                                   !.coordinates_p[i + 1].error_p = err],
                         world, i + 1, ok /\ r.ok,
                         Scatter(pixel, s.pixel_maps_p[i + 1], pixtmp))

toPixel(s, world) == toPixelFrom(s, world, 0, TRUE, NewVector(nPixelAxes(s)))

\* CoordinateSystem::worldAxisNames and the other derived vectors: exposed
\* axis i is looked up with findWorldAxis / findPixelAxis.
worldAxisNames(s) ==
    [i \in 1..nWorldAxes(s) |->
        LET f == findWorldAxis(s, i - 1)
        IN  s.coordinates_p[f.coordinate + 1].worldAxisNames[f.axisInCoordinate + 1]]

worldAxisUnits(s) ==
    [i \in 1..nWorldAxes(s) |->
        LET f == findWorldAxis(s, i - 1)
        IN  s.coordinates_p[f.coordinate + 1].worldAxisUnits[f.axisInCoordinate + 1]]

referencePixel(s) ==
    [i \in 1..nPixelAxes(s) |->
        LET f == findPixelAxis(s, i - 1)
        IN  s.coordinates_p[f.coordinate + 1].referencePixel[f.axisInCoordinate + 1]]

increment(s) ==
    [i \in 1..nWorldAxes(s) |->
        LET f == findWorldAxis(s, i - 1)
        IN  s.coordinates_p[f.coordinate + 1].increment[f.axisInCoordinate + 1]]

referenceValue(s) ==
    [i \in 1..nWorldAxes(s) |->
        LET f == findWorldAxis(s, i - 1)
        IN  s.coordinates_p[f.coordinate + 1].referenceValue[f.axisInCoordinate + 1]]

\* CoordinateSystem::linearTransform: element (i, j) is the sub-coordinate's
\* own element when both axes are of the same sub-coordinate, 0 otherwise.
linearTransform(s) ==
    [i \in 1..nWorldAxes(s) |->
        [j \in 1..nPixelAxes(s) |->
            LET w == findWorldAxis(s, i - 1)
                p == findPixelAxis(s, j - 1)
            IN  IF /\ w.coordinate = p.coordinate
                   /\ w.coordinate >= 0 /\ w.axisInCoordinate >= 0 /\ p.axisInCoordinate >= 0
                THEN s.coordinates_p[w.coordinate + 1]
                        .linearTransform[w.axisInCoordinate + 1][p.axisInCoordinate + 1]
                ELSE 0]]

(***************************************************************************)
(* Inputs of the operations.                                               *)
(***************************************************************************)
\* The permutations of 0..n-1, as vectors.
Perms(n) == {p \in [1..n -> 0..(n - 1)] : \A i, j \in 1..n : p[i] = p[j] => i = j}

Identity(n) == [i \in 1..n |-> i - 1]

\* Vectors that are no permutation of 0..n-1: a wrong length, an entry that is
\* negative or out of range, a repeated entry.
BadOrders(n) ==
    LET sameLen == [1..n -> -1..n] \ Perms(n)
        shorter == IF n = 0 THEN {} ELSE Perms(n - 1)
        longer == {Append(p, x) : p \in Perms(n), x \in 0..n}
    IN  sameLen \cup shorter \cup longer

\* One vector of each kind of BadOrders(n), for the calls that fail.
SomeBadOrders(n) ==
    {SubSeq(Identity(n), 1, n - 1), Append(Identity(n), n)}
        \cup {[Identity(n) EXCEPT ![1] = x] : x \in {-1, n} \cap (IF n = 0 THEN {} ELSE {-1, n})}
        \cup {[i \in 1..n |-> 0] : k \in (IF n >= 2 THEN {0} ELSE {})}

\* The inverse of a permutation.
Inverse(p) == [i \in 1..Len(p) |-> (CHOOSE j \in 1..Len(p) : p[j] = i - 1) - 1]

Init ==
    /\ cs = EmptySystem
    /\ last = [op |-> "construct", ok |-> TRUE]
    /\ given = [world |-> << >>, pixel |-> << >>]
    /\ pix = << >>
    /\ threads = [t \in Threads |-> [pc |-> "none"]]

\* The axes of all sub-coordinates, removed ones included.
TotalAxes(s) == SumSeq([i \in 1..Len(s.coordinates_p) |-> CoordNWorldAxes(s.coordinates_p[i])])

AddCoordinate(c) ==
    /\ nCoordinates(cs) < MaxCoords
    /\ TotalAxes(cs) + CoordNWorldAxes(c) <= MaxAxes
    /\ cs' = addCoordinate(cs, c)
    /\ last' = [op |-> "addCoordinate", ok |-> TRUE]
    /\ UNCHANGED <<pix, threads>>
    /\ given' = [world |-> Append(given.world, NewVector(CoordNWorldAxes(c))),
                 pixel |-> Append(given.pixel, NewVector(CoordNPixelAxes(c)))]

Transpose(newWorldOrder, newPixelOrder) ==
    LET r == transpose(cs, newWorldOrder, newPixelOrder)
    IN  /\ cs' = r.cs
        /\ last' = [op |-> "transpose", ok |-> r.ok]
        /\ UNCHANGED <<given, pix, threads>>

\* The removed axes of a system, world and pixel together.
nRemoved(s) == 2 * TotalAxes(s) - nWorldAxes(s) - nPixelAxes(s)

RemoveWorldAxis(axis, replacement) ==
    LET r == removeWorldAxis(cs, axis, replacement)
    IN  /\ r.ok => nRemoved(cs) < MaxRemoved
        /\ cs' = r.cs
        /\ last' = [op |-> "removeWorldAxis", ok |-> r.ok]
        /\ UNCHANGED <<pix, threads>>
        /\ given' = IF r.ok
                    THEN LET at == ScanMaps(cs.world_maps_p, axis)
                         IN  [given EXCEPT !.world[at.coordinate + 1][at.axisInCoordinate + 1] =
                                               replacement]
                    ELSE given

RemovePixelAxis(axis, replacement) ==
    LET r == removePixelAxis(cs, axis, replacement)
    IN  /\ r.ok => nRemoved(cs) < MaxRemoved
        /\ cs' = r.cs
        /\ last' = [op |-> "removePixelAxis", ok |-> r.ok]
        /\ UNCHANGED <<pix, threads>>
        /\ given' = IF r.ok
                    THEN LET at == ScanMaps(cs.pixel_maps_p, axis)
                         IN  [given EXCEPT !.pixel[at.coordinate + 1][at.axisInCoordinate + 1] =
                                               replacement]
                    ELSE given

ReplaceCoordinate(newCoordinate, which) ==
    LET r == replaceCoordinate(cs, newCoordinate, which)
    IN  /\ cs' = r.cs
        /\ last' = [op |-> "replaceCoordinate", ok |-> r.ok]
        /\ UNCHANGED <<given, pix, threads>>

RestoreOriginal ==
    /\ cs' = restoreOriginal(cs)
    /\ last' = [op |-> "restoreOriginal", ok |-> TRUE]
    /\ UNCHANGED <<pix, threads>>
    /\ given' = [world |-> [i \in 1..Len(given.world) |-> NewVector(Len(given.world[i]))],
                 pixel |-> [i \in 1..Len(given.pixel) |-> NewVector(Len(given.pixel[i]))]]

\* CoordinateSystem::CoordinateSystem(const CoordinateSystem &): the program
\* goes on with the copy.
Copy ==
    /\ cs' = copy(cs)
    /\ last' = [op |-> "copy", ok |-> TRUE]
    /\ UNCHANGED <<given, pix, threads>>

Next ==
    \/ \E c \in Catalogue : AddCoordinate(c)
    \/ \E wo \in Perms(nWorldAxes(cs)), po \in Perms(nPixelAxes(cs)) : Transpose(wo, po)
    \/ \E wo \in SomeBadOrders(nWorldAxes(cs)) : Transpose(wo, Identity(nPixelAxes(cs)))
    \/ \E po \in SomeBadOrders(nPixelAxes(cs)) : Transpose(Identity(nWorldAxes(cs)), po)
    \/ \E axis \in 0..(nWorldAxes(cs) + 1), v \in ReplVals : RemoveWorldAxis(axis, v)
    \/ \E axis \in 0..(nPixelAxes(cs) + 1), v \in ReplVals : RemovePixelAxis(axis, v)
    \/ \E c \in Catalogue, which \in 0..nCoordinates(cs) : ReplaceCoordinate(c, which)
    \/ RestoreOriginal
    \/ Copy

Spec == Init /\ [][Next]_vars

(***************************************************************************)
(* The transforms, on the systems of at most MaxAxesT axes: the scratch    *)
(* vectors keep what the last call left in them.                           *)
(***************************************************************************)
ToWorld(pixel) ==
    LET r == toWorld(cs, pixel)
    IN  /\ cs' = r.cs
        /\ last' = [op |-> "toWorld", ok |-> r.ok]
        /\ UNCHANGED <<given, pix, threads>>

ToPixel(world) ==
    LET r == toPixel(cs, world)
    IN  /\ cs' = r.cs
        /\ last' = [op |-> "toPixel", ok |-> r.ok]
        /\ UNCHANGED <<given, pix, threads>>

NextT ==
    \/ \E c \in CatalogueT : TotalAxes(cs) + CoordNWorldAxes(c) <= MaxAxesT /\ AddCoordinate(c)
    \/ \E wo \in Perms(nWorldAxes(cs)), po \in Perms(nPixelAxes(cs)) : Transpose(wo, po)
    \/ \E axis \in 0..(nWorldAxes(cs) - 1), v \in ReplVals : RemoveWorldAxis(axis, v)
    \/ \E axis \in 0..(nPixelAxes(cs) - 1), v \in ReplVals : RemovePixelAxis(axis, v)
    \/ \E pixel \in [1..nPixelAxes(cs) -> Vals] : ToWorld(pixel)
    \/ \E world \in [1..nWorldAxes(cs) -> Vals] : ToPixel(world)
    \/ Copy

SpecT == Init /\ [][NextT]_vars

(***************************************************************************)
(* Properties.                                                             *)
(***************************************************************************)
Exposed(maps) == {p \in Positions(maps) : maps[p[1]][p[2]] >= 0}

Removed(maps) == {p \in Positions(maps) : maps[p[1]][p[2]] < 0}

\* The entries >= 0 of the maps are 0..n-1, each once, n their number.
IsPermutationOfExposed(maps) ==
    /\ {maps[p[1]][p[2]] : p \in Exposed(maps)} = 0..(Cardinality(Exposed(maps)) - 1)
    /\ \A p, q \in Exposed(maps) : maps[p[1]][p[2]] = maps[q[1]][q[2]] => p = q

\* C1: in every system reachable by addCoordinate, removeWorldAxis,
\* removePixelAxis, transpose, replaceCoordinate, restoreOriginal and copy, the
\* entries >= 0 of the world maps are exactly 0..nWorldAxes()-1 without
\* duplicates, and those of the pixel maps exactly 0..nPixelAxes()-1.
C1_MappingInvariant ==
    /\ IsPermutationOfExposed(cs.world_maps_p)
    /\ IsPermutationOfExposed(cs.pixel_maps_p)
    /\ nWorldAxes(cs) = Cardinality(Exposed(cs.world_maps_p))
    /\ nPixelAxes(cs) = Cardinality(Exposed(cs.pixel_maps_p))

\* A system of two sub-coordinates with a removed world axis, a removed pixel
\* axis and the remaining world axes out of their stored order.
C1_Witness ==
    /\ nCoordinates(cs) = 2
    /\ Removed(cs.world_maps_p) /= {}
    /\ Removed(cs.pixel_maps_p) /= {}
    /\ ScanMaps(cs.world_maps_p, 0).coordinate = 1
    /\ nWorldAxes(cs) = 2

\* C2: after transpose(worldOrder, pixelOrder) the world axis at new index i is
\* the axis that was at index worldOrder[i], likewise the pixel axes; removed
\* axes stay removed with their replacement values; the sub-coordinates keep
\* their stored order; on a (long, lat, freq) system transpose([2,0,1],[2,0,1])
\* makes worldAxisNames() [freq, long, lat].
C2_TransposeMovesAxes ==
    \A wo \in Perms(nWorldAxes(cs)), po \in Perms(nPixelAxes(cs)) :
        LET r == transpose(cs, wo, po)
        IN  /\ r.ok
            /\ \A i \in 1..Len(wo) :
                   ScanMaps(r.cs.world_maps_p, i - 1) = ScanMaps(cs.world_maps_p, wo[i])
            /\ \A i \in 1..Len(po) :
                   ScanMaps(r.cs.pixel_maps_p, i - 1) = ScanMaps(cs.pixel_maps_p, po[i])
            /\ Removed(r.cs.world_maps_p) = Removed(cs.world_maps_p)
            /\ Removed(r.cs.pixel_maps_p) = Removed(cs.pixel_maps_p)
            /\ r.cs.world_replacement_values_p = cs.world_replacement_values_p
            /\ r.cs.pixel_replacement_values_p = cs.pixel_replacement_values_p
            /\ r.cs.coordinates_p = cs.coordinates_p
            /\ (/\ worldAxisNames(cs) = <<"long", "lat", "freq">>
                /\ wo = <<2, 0, 1>>
                /\ po = <<2, 0, 1>>)
               => worldAxisNames(r.cs) = <<"freq", "long", "lat">>

\* The (long, lat, freq) system after a transpose, a pixel axis removed.
C2_Witness ==
    /\ last = [op |-> "transpose", ok |-> TRUE]
    /\ worldAxisNames(cs) = <<"freq", "long", "lat">>
    /\ cs.coordinates_p = <<Direction, Spectral>>
    /\ Removed(cs.pixel_maps_p) /= {}

\* The derived vectors of a system.
Derived(s) ==
    [referenceValue |-> referenceValue(s),
     referencePixel |-> referencePixel(s),
     increment |-> increment(s),
     linearTransform |-> linearTransform(s),
     worldAxisNames |-> worldAxisNames(s),
     worldAxisUnits |-> worldAxisUnits(s)]

\* C3: transpose(sigma, pi) followed by transpose(sigma^-1, pi^-1) leaves the
\* world maps, the pixel maps and the derived vectors as they were, on every
\* reachable system, removed axes or not.
C3_TransposeInvolution ==
    \A wo \in Perms(nWorldAxes(cs)), po \in Perms(nPixelAxes(cs)) :
        LET r1 == transpose(cs, wo, po)
            r2 == transpose(r1.cs, Inverse(wo), Inverse(po))
        IN  /\ r1.ok /\ r2.ok
            /\ r2.cs.world_maps_p = cs.world_maps_p
            /\ r2.cs.pixel_maps_p = cs.pixel_maps_p
            /\ Derived(r2.cs) = Derived(cs)

\* A transposed system with a removed world axis on which a transpose with a
\* permutation that is not its own inverse changes the derived vectors.
C3_Witness ==
    /\ last = [op |-> "transpose", ok |-> TRUE]
    /\ Removed(cs.world_maps_p) /= {}
    /\ nPixelAxes(cs) = 3
    /\ \E po \in Perms(3) :
           /\ Inverse(po) /= po
           /\ Derived(transpose(cs, Identity(nWorldAxes(cs)), po).cs) /= Derived(cs)

\* C4: transpose fails, and leaves the maps and the replacement values as they
\* were, whenever worldOrder is no permutation of 0..nWorldAxes()-1 or
\* pixelOrder is none of 0..nPixelAxes()-1.
C4_TransposeRejects ==
    LET nw == nWorldAxes(cs)
        np == nPixelAxes(cs)
        Rejected(wo, po) ==
            LET r == transpose(cs, wo, po) IN ~r.ok /\ r.cs = cs
    IN  /\ \A wo \in BadOrders(nw) : \A po \in {Identity(np)} \cup SomeBadOrders(np) :
               Rejected(wo, po)
        /\ \A po \in BadOrders(np) : \A wo \in Perms(nw) : Rejected(wo, po)

\* A failed transpose on a system with at least two exposed axes of each kind
\* and a removed axis.
C4_Witness ==
    /\ last = [op |-> "transpose", ok |-> FALSE]
    /\ nWorldAxes(cs) >= 2
    /\ nPixelAxes(cs) >= 2
    /\ Removed(cs.world_maps_p) /= {}

\* What removeWorldAxis(k, v) / removePixelAxis(k, v) has to do to the maps and
\* the replacement values, old and new being the blocks before and after.
RemovalEffect(oldMaps, newMaps, newReplacement, k, v) ==
    \A p \in Positions(oldMaps) :
        LET old == oldMaps[p[1]][p[2]]
            new == newMaps[p[1]][p[2]]
        IN  /\ old = k => new = -1 /\ newReplacement[p[1]][p[2]] = v
            /\ old > k => new = old - 1
            /\ old < k => new = old

\* C5: for k < nWorldAxes(), removeWorldAxis(k, v) sets the world-map entry that
\* was k to -1 and stores v as its replacement value, decrements every exposed
\* world index greater than k, leaves the smaller ones alone and reduces
\* nWorldAxes() by exactly one; removePixelAxis(k, v) does the same on the
\* pixel maps and nPixelAxes().
C5_RemoveAxis ==
    /\ \A k \in 0..(nWorldAxes(cs) - 1), v \in ReplVals :
           LET r == removeWorldAxis(cs, k, v)
           IN  /\ r.ok
               /\ RemovalEffect(cs.world_maps_p, r.cs.world_maps_p,
                                r.cs.world_replacement_values_p, k, v)
               /\ nWorldAxes(r.cs) = nWorldAxes(cs) - 1
    /\ \A k \in 0..(nPixelAxes(cs) - 1), v \in ReplVals :
           LET r == removePixelAxis(cs, k, v)
           IN  /\ r.ok
               /\ RemovalEffect(cs.pixel_maps_p, r.cs.pixel_maps_p,
                                r.cs.pixel_replacement_values_p, k, v)
               /\ nPixelAxes(r.cs) = nPixelAxes(cs) - 1

\* A system after removePixelAxis of the first axis of its first sub-coordinate:
\* the axes behind it have moved down, the second sub-coordinate's to index 1.
C5_Witness ==
    /\ last = [op |-> "removePixelAxis", ok |-> TRUE]
    /\ nCoordinates(cs) = 2
    /\ cs.pixel_maps_p[1] = <<-1, 0>>
    /\ cs.pixel_maps_p[2] = <<1>>
    /\ cs.pixel_replacement_values_p[1][1] = 18

\* C6 as stated: a second removeWorldAxis(k, v) / removePixelAxis(k, v) with the
\* same arguments leaves the world maps and pixel maps as they were after the
\* first call.
C6_RemoveIdempotent ==
    /\ \A k \in 0..(nWorldAxes(cs) - 1), v \in ReplVals :
           LET r1 == removeWorldAxis(cs, k, v)
               r2 == removeWorldAxis(r1.cs, k, v)
           IN  /\ r2.cs.world_maps_p = r1.cs.world_maps_p
               /\ r2.cs.pixel_maps_p = r1.cs.pixel_maps_p
    /\ \A k \in 0..(nPixelAxes(cs) - 1), v \in ReplVals :
           LET r1 == removePixelAxis(cs, k, v)
               r2 == removePixelAxis(r1.cs, k, v)
           IN  /\ r2.cs.world_maps_p = r1.cs.world_maps_p
               /\ r2.cs.pixel_maps_p = r1.cs.pixel_maps_p

\* The second of two equal removals: it fails, the system as the first call
\* left it, when k was the last exposed axis; otherwise it succeeds and removes
\* the axis that was exposed as k + 1 before the first call.
SecondRemoval(s, r1, r2, oldMaps, maps1, maps2, repl2, n, k, v) ==
    IF k = n - 1
    THEN ~r2.ok /\ r2.cs = r1.cs
    ELSE LET at == ScanMaps(oldMaps, k + 1)
         IN  /\ r2.ok
             /\ maps1[at.coordinate + 1][at.axisInCoordinate + 1] = k
             /\ maps2[at.coordinate + 1][at.axisInCoordinate + 1] = -1
             /\ repl2[at.coordinate + 1][at.axisInCoordinate + 1] = v
             /\ maps2 /= maps1
             /\ CountExposed(maps2) = n - 2

\* C6, amended: a second removeWorldAxis(k, v) with the same arguments leaves
\* the maps as the first call left them only when k was the last exposed world
\* axis, and then because it fails; for k < nWorldAxes() - 1 (nWorldAxes() taken
\* before the first call) it removes the axis that was exposed as k + 1 and
\* nWorldAxes() is two less than before the first call.  The same holds for
\* removePixelAxis on the pixel maps.
C6_SecondRemovalRemovesNext ==
    /\ \A k \in 0..(nWorldAxes(cs) - 1), v \in ReplVals :
           LET r1 == removeWorldAxis(cs, k, v)
               r2 == removeWorldAxis(r1.cs, k, v)
           IN  SecondRemoval(cs, r1, r2, cs.world_maps_p, r1.cs.world_maps_p,
                             r2.cs.world_maps_p, r2.cs.world_replacement_values_p,
                             nWorldAxes(cs), k, v)
    /\ \A k \in 0..(nPixelAxes(cs) - 1), v \in ReplVals :
           LET r1 == removePixelAxis(cs, k, v)
               r2 == removePixelAxis(r1.cs, k, v)
           IN  SecondRemoval(cs, r1, r2, cs.pixel_maps_p, r1.cs.pixel_maps_p,
                             r2.cs.pixel_maps_p, r2.cs.pixel_replacement_values_p,
                             nPixelAxes(cs), k, v)

\* A system after removeWorldAxis, two of its three world axes removed with the
\* same replacement value and the third exposed as 0: what removeWorldAxis(0, 17)
\* twice makes of the (long, lat, freq) system.
C6_Witness ==
    /\ last = [op |-> "removeWorldAxis", ok |-> TRUE]
    /\ cs.coordinates_p = <<Direction, Spectral>>
    /\ cs.world_maps_p = << <<-1, -1>>, <<0>> >>
    /\ cs.world_replacement_values_p[1] = <<17, 17>>

\* C9: addCoordinate(c) leaves every map entry and replacement value of the
\* sub-coordinates already there as it is and exposes world axis j of the new
\* sub-coordinate as nWorldAxes() + j and its pixel axis j as nPixelAxes() + j
\* (both taken before the call); the first nWorldAxes() entries of the
\* world-derived vectors are unchanged and the last ones are those of c.
C9_AddCoordinateFrame ==
    \A c \in CatalogueT :
        LET r == addCoordinate(cs, c)
            n == nCoordinates(cs)
            nw == nWorldAxes(cs)
            np == nPixelAxes(cs)
            cw == CoordNWorldAxes(c)
            cp == CoordNPixelAxes(c)
        IN  /\ nCoordinates(r) = n + 1
            /\ \A i \in 1..n :
                   /\ r.world_maps_p[i] = cs.world_maps_p[i]
                   /\ r.pixel_maps_p[i] = cs.pixel_maps_p[i]
                   /\ r.world_replacement_values_p[i] = cs.world_replacement_values_p[i]
                   /\ r.pixel_replacement_values_p[i] = cs.pixel_replacement_values_p[i]
            /\ r.world_maps_p[n + 1] = [j \in 1..cw |-> nw + (j - 1)]
            /\ r.pixel_maps_p[n + 1] = [j \in 1..cp |-> np + (j - 1)]
            /\ worldAxisNames(r) = worldAxisNames(cs) \o c.worldAxisNames
            /\ worldAxisUnits(r) = worldAxisUnits(cs) \o c.worldAxisUnits
            /\ referenceValue(r) = referenceValue(cs) \o c.referenceValue
            /\ increment(r) = increment(cs) \o c.increment
            /\ referencePixel(r) = referencePixel(cs) \o c.referencePixel

\* A Spectral sub-coordinate added to a Direction one whose longitude world axis
\* was removed: its world axis is exposed as 1, its pixel axis as 2.
C9_Witness ==
    /\ last = [op |-> "addCoordinate", ok |-> TRUE]
    /\ cs.coordinates_p = <<Direction, Spectral>>
    /\ cs.world_maps_p = << <<-1, 0>>, <<1>> >>
    /\ cs.pixel_maps_p = << <<1, 0>>, <<2>> >>

\* The vectors the transforms are tried on.
PixelInputs(s) == [1..nPixelAxes(s) -> Vals]

WorldInputs(s) == [1..nWorldAxes(s) -> Vals]

\* The elements of the caller's vector that a transform has written.
Written(v) == {k \in 1..Len(v) : v[k] /= Undef}

\* C7 as stated: after removeWorldAxis(k, v), for any pixel vector given to
\* toWorld, the full internal world vector of the owning sub-coordinate has the
\* value v at the removed position, and the world vector toWorld returns has
\* nWorldAxes() - 1 elements (nWorldAxes() taken before the removal).  Only the
\* calls that succeed are held against it.
C7_RemovedWorldAxisHoldsReplacement ==
    /\ last = [op |-> "toWorld", ok |-> TRUE] =>
           \A p \in Removed(cs.world_maps_p) :
               cs.world_tmps_p[p[1]][p[2]] = given.world[p[1]][p[2]]
    /\ \A k \in 0..(nWorldAxes(cs) - 1), v \in ReplVals :
           LET r == removeWorldAxis(cs, k, v)
           IN  \A pixel \in PixelInputs(r.cs) :
                   LET t == toWorldFrom(r.cs, pixel, 0, TRUE, NewVector(TotalAxes(cs)))
                   IN  t.ok => Written(t.world) = 1..(nWorldAxes(cs) - 1)

\* C7, amended: after removeWorldAxis(k, v), a toWorld call that succeeds
\* leaves in the full internal world vector of the owning sub-coordinate, at
\* the removed position, the value that sub-coordinate computes from its pixel
\* input -- the world vectors of all sub-coordinates are what toWorld computes
\* for the same pixel vector without the removal -- and not v; it writes
\* exactly the first nWorldAxes() - 1 elements of the caller's world vector,
\* the values it wrote before the removal without element k.  v is what toPixel
\* hands to the owning sub-coordinate at the removed position.
C7_RemovedWorldAxisIsComputed ==
    \A k \in 0..(nWorldAxes(cs) - 1), v \in ReplVals :
        LET r == removeWorldAxis(cs, k, v)
            at == ScanMaps(cs.world_maps_p, k)
            i == at.coordinate + 1
            j == at.axisInCoordinate + 1
        IN  /\ \A pixel \in PixelInputs(r.cs) :
                   LET t == toWorldFrom(r.cs, pixel, 0, TRUE, NewVector(TotalAxes(cs)))
                       t0 == toWorldFrom(cs, pixel, 0, TRUE, NewVector(TotalAxes(cs)))
                   IN  /\ t.ok = t0.ok
                       /\ t.ok =>
                           /\ t.cs.world_tmps_p[i][j] =
                                  CoordToWorld(cs.coordinates_p[i], t.cs.pixel_tmps_p[i]).world[j]
                           /\ t.cs.world_tmps_p = t0.cs.world_tmps_p
                           /\ Written(t.world) = 1..(nWorldAxes(cs) - 1)
                           /\ \A e \in 1..(nWorldAxes(cs) - 1) :
                                  t.world[e] = t0.world[IF e - 1 < k THEN e ELSE e + 1]
            /\ \A world \in WorldInputs(r.cs) :
                   toPixel(r.cs, world).cs.world_tmps_p[i][j] = v

\* A successful toWorld on the Direction system whose latitude world axis was
\* removed with replacement 17: the internal world vector holds the computed
\* latitude there.
C7_Witness ==
    /\ last = [op |-> "toWorld", ok |-> TRUE]
    /\ cs.coordinates_p = <<Direction>>
    /\ cs.world_maps_p = << <<0, -1>> >>
    /\ given.world[1][2] = 17
    /\ cs.world_replacement_values_p[1][2] = 17
    /\ cs.world_tmps_p[1][2] \in {18, 19}

\* C8: in every toWorld call the pixel vector handed to sub-coordinate i has at
\* position j the caller's pixel(PM[i][j]) when PM[i][j] >= 0 and otherwise the
\* replacement value that was given when that pixel axis was removed, whatever
\* transpose, addCoordinate or copy came after the removal; toPixel fills the
\* removed world axes with their replacement values in the same way.  After
\* removePixelAxis(1, 17) on the two-axis linear system toWorld([5]) converts
\* [5, 17].
C8_ReplacementValuesUsed ==
    /\ \A pixel \in PixelInputs(cs) :
           LET t == toWorld(cs, pixel)
           IN  \A p \in Positions(cs.pixel_maps_p) :
                   t.cs.pixel_tmps_p[p[1]][p[2]] =
                       IF cs.pixel_maps_p[p[1]][p[2]] >= 0
                       THEN pixel[cs.pixel_maps_p[p[1]][p[2]] + 1]
                       ELSE given.pixel[p[1]][p[2]]
    /\ \A world \in WorldInputs(cs) :
           LET t == toPixel(cs, world)
           IN  \A p \in Positions(cs.world_maps_p) :
                   t.cs.world_tmps_p[p[1]][p[2]] =
                       IF cs.world_maps_p[p[1]][p[2]] >= 0
                       THEN world[cs.world_maps_p[p[1]][p[2]] + 1]
                       ELSE given.world[p[1]][p[2]]
    /\ \A p \in Removed(cs.pixel_maps_p) : given.pixel[p[1]][p[2]] \in ReplVals
    /\ \A p \in Removed(cs.world_maps_p) : given.world[p[1]][p[2]] \in ReplVals
    /\ (/\ cs.coordinates_p = <<Linear>>
        /\ cs.pixel_maps_p = << <<0, -1>> >>
        /\ given.pixel[1][2] = 17)
       => toWorld(cs, <<5>>).cs.pixel_tmps_p[1] = <<5, 17>>

\* The (long, lat, freq) system after removePixelAxis(0, 17) and a later
\* transpose of the two pixel axes left: toWorld([1, 0]) hands [17, 0] to the
\* Direction sub-coordinate and [1] to the Spectral one.
C8_Witness ==
    /\ last = [op |-> "transpose", ok |-> TRUE]
    /\ cs.coordinates_p = <<Direction, Spectral>>
    /\ cs.pixel_maps_p = << <<-1, 1>>, <<0>> >>
    /\ given.pixel[1][1] = 17
    /\ toWorld(cs, <<1, 0>>).cs.pixel_tmps_p = << <<17, 0>>, <<1>> >>

\* C10: on a system without removed axes, whatever its transposition and the
\* number of its sub-coordinates, toWorld(p) = w succeeding implies that
\* toPixel(w) succeeds and returns p; for the two-axis identity linear system
\* toWorld([3,4]) = [3,4] and toPixel([3,4]) = [3,4].
C10_RoundTrip ==
    (Removed(cs.world_maps_p) = {} /\ Removed(cs.pixel_maps_p) = {}) =>
        /\ \A pixel \in PixelInputs(cs) :
               LET t == toWorld(cs, pixel)
               IN  t.ok => LET u == toPixel(t.cs, t.world)
                           IN  u.ok /\ u.pixel = pixel
        /\ (cs.coordinates_p = <<Linear>> /\ cs.world_maps_p = << <<0, 1>> >>
                /\ cs.pixel_maps_p = << <<0, 1>> >>)
           => LET t == toWorld(cs, <<3, 4>>)
                  u == toPixel(cs, <<3, 4>>)
              IN  t.ok /\ t.world = <<3, 4>> /\ u.ok /\ u.pixel = <<3, 4>>

\* The (long, lat, freq) system with its world axes and its pixel axes
\* transposed by two different cyclic permutations: toWorld([0,1,1]) succeeds
\* with another vector and toPixel takes that back to [0,1,1].
C10_Witness ==
    /\ last = [op |-> "transpose", ok |-> TRUE]
    /\ cs.coordinates_p = <<Direction, Spectral>>
    /\ cs.world_maps_p = << <<1, 2>>, <<0>> >>
    /\ cs.pixel_maps_p = << <<2, 0>>, <<1>> >>
    /\ LET t == toWorld(cs, <<0, 1, 1>>)
       IN  /\ t.ok
           /\ t.world /= <<0, 1, 1>>
           /\ toPixel(t.cs, t.world).pixel = <<0, 1, 1>>

(***************************************************************************)
(* The Coordinate base class (Coordinate.cc): the bulk transforms and the  *)
(* default toMix, run on a sub-coordinate of the system.  They reach the   *)
(* concrete transform through the virtual toWorld / toPixel, which set the *)
(* coordinate's error_p when they fail.                                    *)
(***************************************************************************)
MaxCols == 3            \* columns of a matrix handed to toWorldMany / toPixelMany
MaxValC == 2            \* their elements are drawn from 0..MaxValC

\* ::near(Double, Double) is equality up to a relative tolerance (1e-13 in the
\* build), so two distinct doubles can be near.  The values of the model are
\* far coarser than doubles; the tolerance is 1 / NearTolInv of the larger
\* magnitude on this grid, which makes 1 and 2 near and 0 near only to itself.
NearTolInv == 2

ValsC == 0..MaxValC

\* The coordinates the base-class functions are run on (a DirectionCoordinate
\* has a toMix of its own).
CatalogueC == {Spectral, Stokes, Linear}

Max(a, b) == IF a >= b THEN a ELSE b

near(val1, val2) ==
    \/ val1 = val2
    \/ /\ val1 /= 0
       /\ val2 /= 0
       /\ (val1 > 0) = (val2 > 0)
       /\ Abs(val1 - val2) * NearTolInv <= Max(Abs(val1), Abs(val2))

\* Coordinate::set_error
set_error(c, errorMsg) == [c EXCEPT !.error_p = errorMsg]

\* The virtual toWorld / toPixel called on the coordinate itself: the output
\* vector is written when the call succeeds, error_p when it fails.
coordToWorld(c, world, pixel) ==
    LET r == CoordToWorld(c, pixel)
    IN  IF r.ok
        THEN [ok |-> TRUE, world |-> r.world, coord |-> c]
        ELSE [ok |-> FALSE, world |-> world, coord |-> set_error(c, r.error)]

coordToPixel(c, pixel, world) ==
    LET r == CoordToPixel(c, world)
    IN  IF r.ok
        THEN [ok |-> TRUE, pixel |-> r.pixel, coord |-> c]
        ELSE [ok |-> FALSE, pixel |-> pixel, coord |-> set_error(c, r.error)]

\* failures.resize(2*nError, True): the old elements are kept.
ResizeCopy(v, n) == [k \in 1..n |-> IF k <= Len(v) THEN v[k] ELSE Undef]

\* "same" of column l: every element passes near against the previous column.
SameColumn(col, lastCol, l) ==
    \A k \in 1..Len(col) : ~(l = 0 \/ (l /= 0 /\ ~near(col[k], lastCol[k])))

\* The state of the loop of toWorldMany / toPixelMany before its first column:
\* out is the resized output matrix (a sequence of columns), tmp the vector the
\* scalar transform writes (worldTmp / pixTmp), lastIn is lastPix / lastWorld.
ManyStart(c, nOut, nIn, nTransforms, failures) ==
    [coord |-> c,
     out |-> [t \in 1..nTransforms |-> NewVector(nOut)],
     tmp |-> NewVector(nOut),
     lastIn |-> NewVector(nIn),
     errorMsg |-> << >>,
     nError |-> 0,
     failures |-> failures]

\* A failing column that saves the error message of every failure.
RecordFailureLast(st, coord, l) ==
    LET nError == st.nError + 1
        resized == IF nError > Len(st.failures)
                   THEN ResizeCopy(st.failures, 2 * nError)
                   ELSE st.failures
    IN  [st EXCEPT !.coord = coord,
                   !.nError = nError,
                   !.failures = [resized EXCEPT ![nError] = l],
                   !.errorMsg = coord.error_p]

\* What a failing column does to the loop state: lines 109-114.
RecordFailure(st, coord, l) ==
    LET nError == st.nError + 1
        resized == IF nError > Len(st.failures)
                   THEN ResizeCopy(st.failures, 2 * nError)
                   ELSE st.failures
    IN  [st EXCEPT !.coord = coord,
                   !.nError = nError,
                   !.failures = [resized EXCEPT ![nError] = l],
                   !.errorMsg = IF nError = 1 THEN coord.error_p ELSE st.errorMsg]

\* The loop of Coordinate::toWorldMany over the columns from l on.
RECURSIVE toWorldManyFrom(_, _, _)
toWorldManyFrom(pixel, l, st) ==
    IF l >= Len(pixel)
    THEN st
    ELSE LET pixTmp == pixel[l + 1]
             r == coordToWorld(st.coord, st.tmp, pixTmp)
             next == IF SameColumn(pixTmp, st.lastIn, l)
                     THEN [st EXCEPT !.out[l + 1] = st.tmp]
                     ELSE IF ~r.ok
                          THEN RecordFailure(st, r.coord, l)
                          ELSE [st EXCEPT !.tmp = r.world, !.out[l + 1] = r.world]
         IN  toWorldManyFrom(pixel, l + 1, [next EXCEPT !.lastIn = pixTmp])

\* What toWorldMany / toPixelMany hand back after the loop: lines 125-126.
ManyReturn(st) ==
    [ok |-> TRUE,
     ret |-> st.nError,
     out |-> st.out,
     failures |-> st.failures,
     coord |-> IF st.nError /= 0 THEN set_error(st.coord, st.errorMsg) ELSE st.coord]

ManyThrow(c, failures) ==
    [ok |-> FALSE, ret |-> 0, out |-> << >>, failures |-> failures, coord |-> c]

\* Coordinate::toWorldMany: pixel is the matrix as the sequence of its columns.
toWorldMany(c, pixel, failures) ==
    IF \E t \in 1..Len(pixel) : Len(pixel[t]) /= CoordNPixelAxes(c)
    THEN ManyThrow(c, failures)
    ELSE ManyReturn(toWorldManyFrom(pixel, 0,
             ManyStart(c, CoordNWorldAxes(c), CoordNPixelAxes(c), Len(pixel), failures)))

\* The loop of Coordinate::toPixelMany.
RECURSIVE toPixelManyFrom(_, _, _)
toPixelManyFrom(world, l, st) ==
    IF l >= Len(world)
    THEN st
    ELSE LET worldTmp == world[l + 1]
             r == coordToPixel(st.coord, st.tmp, worldTmp)
             next == IF SameColumn(worldTmp, st.lastIn, l)
                     THEN [st EXCEPT !.out[l + 1] = st.tmp]
                     ELSE IF ~r.ok
                          THEN RecordFailure(st, r.coord, l)
                          ELSE [st EXCEPT !.tmp = r.pixel, !.out[l + 1] = r.pixel]
         IN  toPixelManyFrom(world, l + 1, [next EXCEPT !.lastIn = worldTmp])

\* Coordinate::toPixelMany
toPixelMany(c, world, failures) ==
    IF \E t \in 1..Len(world) : Len(world[t]) /= CoordNWorldAxes(c)
    THEN ManyThrow(c, failures)
    ELSE ManyReturn(toPixelManyFrom(world, 0,
             ManyStart(c, CoordNPixelAxes(c), CoordNWorldAxes(c), Len(world), failures)))

\* The vectors handed to a coordinate of n axes: the more axes, the fewer values.
Vectors(n) == [1..n -> 0..(MaxValC \div n)]

\* The matrices handed to a coordinate of n axes: at most MaxCols columns for
\* one axis, one column fewer for two.
Matrices(n) == UNION {[1..t -> Vectors(n)] : t \in 0..(MaxCols + 1 - n)}

\* "v(i) = in(i) where sel(i)" over a copy of v.
Overwrite(v, sel, in) == [i \in 1..Len(v) |-> IF sel[i] THEN in[i] ELSE v[i]]

\* A selection check that rejects only an axis selected as both pixel and world.
BadMixAxesDuplicates(worldAxes, pixelAxes) ==
    {i \in 1..Len(pixelAxes) : worldAxes[i] /\ pixelAxes[i]}

\* The axes the selection loop of toMix (lines 215-224) stops at.
BadMixAxes(worldAxes, pixelAxes) ==
    {i \in 1..Len(pixelAxes) : worldAxes[i] = pixelAxes[i]}

\* Coordinate::toMix, the default implementation.  The result carries the
\* caller's two output vectors as the call leaves them.
toMix(c, worldOut, pixelOut, worldIn, pixelIn, worldAxes, pixelAxes) ==
    LET bad == BadMixAxes(worldAxes, pixelAxes)
        first == CHOOSE i \in bad : \A i2 \in bad : i <= i2
        toP == coordToPixel(c, NewVector(Len(pixelAxes)),
                            Overwrite(c.referenceValue, worldAxes, worldIn))
        pixOut == Overwrite(toP.pixel, pixelAxes, pixelIn)
        toW == coordToWorld(toP.coord, NewVector(Len(worldAxes)),
                            Overwrite(c.referencePixel, pixelAxes, pixelIn))
    IN  IF bad /= {}
        THEN [ok |-> FALSE, worldOut |-> worldOut, pixelOut |-> pixelOut,
              coord |-> set_error(c,
                  IF pixelAxes[first]
                  THEN <<"Coordinate::toMix - duplicate pixel/world axes">>
                  ELSE <<"Coordinate::toMix - each axis must be either pixel or world">>)]
        ELSE IF ~toP.ok
        THEN [ok |-> FALSE, worldOut |-> worldOut, pixelOut |-> pixelOut, coord |-> toP.coord]
        ELSE IF ~toW.ok
        THEN [ok |-> FALSE, worldOut |-> worldOut, pixelOut |-> pixOut, coord |-> toW.coord]
        ELSE [ok |-> TRUE, worldOut |-> Overwrite(toW.world, worldAxes, worldIn),
              pixelOut |-> pixOut, coord |-> toW.coord]

\* The axis selections handed to toMix for a coordinate of n axes.
Selections(n) == [1..n -> BOOLEAN]

(***************************************************************************)
(* The base-class functions called on sub-coordinate `which` of a system   *)
(* of one sub-coordinate.  last keeps the arguments and the results of     *)
(* the call.                                                               *)
(***************************************************************************)
AddCoordinateC(c) ==
    /\ nCoordinates(cs) = 0
    /\ AddCoordinate(c)

\* coordinate(which).toWorld(world, pixel) with an unwritten world vector
CoordinateToWorld(which, pixel) ==
    LET c == cs.coordinates_p[which + 1]
        r == coordToWorld(c, NewVector(CoordNWorldAxes(c)), pixel)
    IN  /\ cs' = [cs EXCEPT !.coordinates_p[which + 1] = r.coord]
        /\ last' = [op |-> "coordinate.toWorld", ok |-> r.ok]
        /\ UNCHANGED <<given, pix, threads>>

ToWorldMany(which, pixel, nFailures) ==
    LET r == toWorldMany(cs.coordinates_p[which + 1], pixel, NewVector(nFailures))
    IN  /\ cs' = [cs EXCEPT !.coordinates_p[which + 1] = r.coord]
        /\ last' = [op |-> "toWorldMany", ok |-> r.ok, in |-> pixel, ret |-> r.ret,
                    out |-> r.out, failures |-> r.failures,
                    before |-> cs.coordinates_p[which + 1]]
        /\ UNCHANGED <<given, pix, threads>>

ToPixelMany(which, world, nFailures) ==
    LET r == toPixelMany(cs.coordinates_p[which + 1], world, NewVector(nFailures))
    IN  /\ cs' = [cs EXCEPT !.coordinates_p[which + 1] = r.coord]
        /\ last' = [op |-> "toPixelMany", ok |-> r.ok, in |-> world, ret |-> r.ret,
                    out |-> r.out, failures |-> r.failures,
                    before |-> cs.coordinates_p[which + 1]]
        /\ UNCHANGED <<given, pix, threads>>

ToMix(which, worldIn, pixelIn, worldAxes, pixelAxes) ==
    LET c == cs.coordinates_p[which + 1]
        r == toMix(c, NewVector(CoordNWorldAxes(c)), NewVector(CoordNPixelAxes(c)),
                   worldIn, pixelIn, worldAxes, pixelAxes)
    IN  /\ cs' = [cs EXCEPT !.coordinates_p[which + 1] = r.coord]
        /\ last' = [op |-> "toMix", ok |-> r.ok, worldOut |-> r.worldOut,
                    pixelOut |-> r.pixelOut, worldIn |-> worldIn, pixelIn |-> pixelIn,
                    worldAxes |-> worldAxes, pixelAxes |-> pixelAxes, before |-> c]
        /\ UNCHANGED <<given, pix, threads>>

NextC ==
    \/ \E c \in CatalogueC : AddCoordinateC(c)
    \/ \E which \in 0..(nCoordinates(cs) - 1) :
           \E pixel \in Vectors(CoordNPixelAxes(cs.coordinates_p[which + 1])) :
               CoordinateToWorld(which, pixel)
    \/ \E which \in 0..(nCoordinates(cs) - 1), nFailures \in 0..1 :
           \E pixel \in Matrices(CoordNPixelAxes(cs.coordinates_p[which + 1])) :
               ToWorldMany(which, pixel, nFailures)
    \/ \E which \in 0..(nCoordinates(cs) - 1), nFailures \in 0..1 :
           \E world \in Matrices(CoordNWorldAxes(cs.coordinates_p[which + 1])) :
               ToPixelMany(which, world, nFailures)
    \/ \E which \in 0..(nCoordinates(cs) - 1) :
           LET n == CoordNPixelAxes(cs.coordinates_p[which + 1])
           IN  \E worldIn \in Vectors(n), pixelIn \in Vectors(n),
                  worldAxes \in Selections(n), pixelAxes \in Selections(n) :
                   ToMix(which, worldIn, pixelIn, worldAxes, pixelAxes)

SpecC == Init /\ [][NextC]_vars

(***************************************************************************)
(* Properties of the base-class functions.                                 *)
(***************************************************************************)
BulkCalls == {"toWorldMany", "toPixelMany"}

\* The scalar transform of the bulk call `call` on its column t (1-based).
ScalarOn(call, t) ==
    IF call.op = "toWorldMany"
    THEN LET r == CoordToWorld(call.before, call.in[t])
         IN  [ok |-> r.ok, out |-> r.world, error |-> r.error]
    ELSE LET r == CoordToPixel(call.before, call.in[t])
         IN  [ok |-> r.ok, out |-> r.pixel, error |-> r.error]

\* The columns (0-based) a bulk call reports: the first `return value` entries
\* of failures.
ReportedFailures(call) == {call.failures[k] : k \in 1..call.ret}

\* C11 as stated: after toWorldMany / toPixelMany, every column on which the
\* scalar transform succeeds and which the bulk call does not report as failed
\* holds what the scalar transform gives for that column, the columns served
\* from the previous-column cache included.
C11_BulkEqualsScalar ==
    last.op \in BulkCalls =>
        \A t \in 1..Len(last.in) :
            (ScalarOn(last, t).ok /\ (t - 1) \notin ReportedFailures(last)) =>
                last.out[t] = ScalarOn(last, t).out

\* Every pair of neighbouring columns of the matrix that passes near is equal.
NearColumnsAreEqual(in) ==
    \A t \in 2..Len(in) : SameColumn(in[t], in[t - 1], t - 1) => in[t] = in[t - 1]

\* C12 as stated, held only against the matrices whose near columns are equal:
\* the first `return value` entries of failures are, in ascending order, exactly
\* the columns on which the scalar transform fails, and the return value is
\* their count.
C12_FailuresAreScalarFailures ==
    (last.op \in BulkCalls /\ NearColumnsAreEqual(last.in)) =>
        /\ ReportedFailures(last) = {t - 1 : t \in {u \in 1..Len(last.in) : ~ScalarOn(last, u).ok}}
        /\ last.ret = Cardinality({u \in 1..Len(last.in) : ~ScalarOn(last, u).ok})
        /\ \A j, k \in 1..last.ret : j < k => last.failures[j] < last.failures[k]

\* The columns (1-based) of a bulk call on which the call ran the scalar
\* transform and it failed.
FailedColumns(call) ==
    {t \in 1..Len(call.in) :
        /\ ~SameColumn(call.in[t], IF t = 1 THEN call.in[t] ELSE call.in[t - 1], t - 1)
        /\ ~ScalarOn(call, t).ok}

\* C13: on return from toWorldMany / toPixelMany the error_p of the coordinate
\* is the message of the first column whose conversion failed, also when a later
\* column failed with another message, and if no conversion failed the
\* coordinate is as it was before the call.
C13_FirstErrorKept ==
    last.op \in BulkCalls =>
        LET failed == FailedColumns(last)
            first == CHOOSE t \in failed : \A u \in failed : t <= u
        IN  IF failed = {}
            THEN cs.coordinates_p[1] = last.before
            ELSE cs.coordinates_p[1].error_p = ScalarOn(last, first).error

\* toWorldMany has returned after two of its columns failed with different
\* messages, and the slot holds the message of the first of them.
C13_Witness ==
    /\ last.op = "toWorldMany"
    /\ last.ret = 2
    /\ ScalarOn(last, last.failures[1] + 1).error /= ScalarOn(last, last.failures[2] + 1).error
    /\ cs.coordinates_p[1].error_p = ScalarOn(last, last.failures[1] + 1).error

\* The two messages of the selection check of toMix.
ToMixMessages ==
    {<<"Coordinate::toMix - duplicate pixel/world axes">>,
     <<"Coordinate::toMix - each axis must be either pixel or world">>}

\* C14: the default toMix returns False with one of its own two messages in
\* error_p exactly when some axis is selected as both world and pixel or as
\* neither; then nothing else of the coordinate and neither output vector has
\* been written.  With a valid selection and both transforms succeeding it
\* returns True, pixelOut is pixelIn on the pixel axes and elsewhere the toPixel
\* of the reference value overwritten by the selected worldIn, and worldOut is
\* worldIn on the world axes and elsewhere the toWorld of the reference pixel
\* overwritten by the selected pixelIn.
C14_ToMix ==
    last.op = "toMix" =>
        LET c == last.before
            n == CoordNPixelAxes(c)
            invalid == \E i \in 1..n : last.worldAxes[i] = last.pixelAxes[i]
            now == cs.coordinates_p[1]
            toP == CoordToPixel(c, Overwrite(c.referenceValue, last.worldAxes, last.worldIn))
            toW == CoordToWorld(c, Overwrite(c.referencePixel, last.pixelAxes, last.pixelIn))
        IN  /\ invalid <=> (~last.ok /\ now.error_p \in ToMixMessages)
            /\ invalid =>
                  /\ \E msg \in ToMixMessages : now = set_error(c, msg)
                  /\ last.worldOut = NewVector(n)
                  /\ last.pixelOut = NewVector(n)
            /\ (~invalid /\ toP.ok /\ toW.ok) =>
                  /\ last.ok
                  /\ \A i \in 1..n :
                        /\ last.pixelOut[i] =
                              IF last.pixelAxes[i] THEN last.pixelIn[i] ELSE toP.pixel[i]
                        /\ last.worldOut[i] =
                              IF last.worldAxes[i] THEN last.worldIn[i] ELSE toW.world[i]

\* toMix has succeeded on the two-axis coordinate with the first axis given as
\* world and the second as pixel, and has computed the other two values.
C14_Witness ==
    /\ last.op = "toMix"
    /\ last.ok
    /\ last.worldAxes = <<TRUE, FALSE>>
    /\ last.pixelAxes = <<FALSE, TRUE>>
    /\ last.worldOut = <<last.worldIn[1], last.pixelIn[2]>>
    /\ last.pixelOut = <<last.worldIn[1], last.pixelIn[2]>>
    /\ last.worldIn[1] /= last.pixelIn[1]

(***************************************************************************)
(* The setters.  A sub-coordinate's setter of a vector stores the vector   *)
(* (the concrete classes are external); its setWorldAxisUnits goes through *)
(* Coordinate::setWorldAxisUnits of Coordinate.cc when adjust is set,      *)
(* which rescales increment and reference value to the new units and fails *)
(* when a new unit does not fit the old one.                               *)
(***************************************************************************)
\* The unit algebra (external): the units the model knows, their dimension and
\* their factor to the base unit of the dimension.
KnownUnits == {"rad", "deg", "Hz", "km", "m", ""}

UnitDimension(u) ==
    CASE u \in {"rad", "deg"} -> "angle"
      [] u = "Hz" -> "frequency"
      [] u \in {"km", "m"} -> "length"
      [] OTHER -> "none"

\* A radian is 57 degrees here: 180 / pi in whole numbers.
UnitFac(u) ==
    CASE u = "km" -> 1000
      [] u = "rad" -> 57
      [] OTHER -> 1

\* Coordinate::find_scale_factor: the first axis whose units do not fit decides
\* the error; factor(i) is Fac(old) / Fac(new), kept as the pair of the two.
find_scale_factor(units, oldUnits) ==
    LET unknown == {i \in 1..Len(units) : oldUnits[i] \notin KnownUnits \/ units[i] \notin KnownUnits}
        unfit == {i \in 1..Len(units) : UnitDimension(oldUnits[i]) /= UnitDimension(units[i])}
        bad == unknown \cup unfit
        first == CHOOSE i \in bad : \A i2 \in bad : i <= i2
    IN  IF Len(units) /= Len(oldUnits)
        THEN [ok |-> FALSE, error |-> <<"units and oldUnits are different sizes!">>]
        ELSE IF bad = {}
        THEN [ok |-> TRUE, error |-> << >>]
        ELSE [ok |-> FALSE,
              error |-> IF first \in unknown
                        THEN <<"Unknown unit - cannot calculate scaling">>
                        ELSE <<"Units are not compatible dimensionally">>]

\* value * factor for the factor Fac(old) / Fac(new); the values of the model
\* keep the division exact.
Rescale(value, oldUnit, newUnit) == Quotient(value * UnitFac(oldUnit), UnitFac(newUnit))

\* Coordinate::setWorldAxisUnits(units): everything except storing the units.
coordSetWorldAxisUnitsBase(c, units) ==
    LET f == find_scale_factor(units, c.worldAxisUnits)
        n == Len(units)
    IN  IF Len(units) /= CoordNWorldAxes(c)
        THEN [ok |-> FALSE, coord |-> set_error(c, <<"Wrong number of elements in units vector">>)]
        ELSE IF units = c.worldAxisUnits
        THEN [ok |-> TRUE, coord |-> c]
        ELSE IF ~f.ok
        THEN [ok |-> FALSE, coord |-> set_error(c, f.error)]
        ELSE [ok |-> TRUE,
              coord |-> [c EXCEPT
                  !.increment = [i \in 1..n |->
                      Rescale(c.increment[i], c.worldAxisUnits[i], units[i])],
                  !.referenceValue = [i \in 1..n |->
                      Rescale(c.referenceValue[i], c.worldAxisUnits[i], units[i])]]]

\* setWorldAxisUnits(units, adjust) of a sub-coordinate.
coordSetWorldAxisUnits(c, units, adjust) ==
    LET base == IF adjust THEN coordSetWorldAxisUnitsBase(c, units) ELSE [ok |-> TRUE, coord |-> c]
    IN  IF base.ok
        THEN [ok |-> TRUE, coord |-> [base.coord EXCEPT !.worldAxisUnits = units]]
        ELSE base

\* The setter of the descriptor `field` of a sub-coordinate.
coordSet(c, field, tmp, adjust) ==
    IF field = "worldAxisUnits"
    THEN coordSetWorldAxisUnits(c, tmp, adjust)
    ELSE [ok |-> TRUE, coord |-> [c EXCEPT ![field] = tmp]]

\* The map a setter goes through: the pixel maps for the reference pixel, the
\* world maps for the others.
SetterMaps(s, field) == IF field = "referencePixel" THEN s.pixel_maps_p ELSE s.world_maps_p

\* A setter loop that stops calling the sub-coordinates after the first failure.
RECURSIVE setVectorFromUntilFailure(_, _, _, _, _, _)
setVectorFromUntilFailure(s, field, v, adjust, i, ok) ==
    IF i >= nCoordinates(s)
    THEN [ok |-> ok, cs |-> s, calls |-> << >>]
    ELSE LET c == s.coordinates_p[i + 1]
             tmp == Gather(v, SetterMaps(s, field)[i + 1], c[field])
             r == IF ok THEN coordSet(c, field, tmp, adjust) ELSE [ok |-> FALSE, coord |-> c]
             rest == setVectorFromUntilFailure([s EXCEPT !.coordinates_p[i + 1] = r.coord],
                                               field, v, adjust, i + 1, r.ok /\ ok)
         IN  [rest EXCEPT !.calls = (IF ok THEN <<[which |-> i, tmp |-> tmp]>> ELSE << >>) \o @]

\* The loop of setWorldAxisNames, setWorldAxisUnits, setReferencePixel,
\* setIncrement and setReferenceValue over the sub-coordinates from i on:
\* "ok = coordinates_p[i]->set...(tmp) && ok" calls the setter first.  calls
\* is the list of the setter calls made: the sub-coordinate and the vector.
RECURSIVE setVectorFrom(_, _, _, _, _, _)
setVectorFrom(s, field, v, adjust, i, ok) ==
    IF i >= nCoordinates(s)
    THEN [ok |-> ok, cs |-> s, calls |-> << >>]
    ELSE LET c == s.coordinates_p[i + 1]
             tmp == Gather(v, SetterMaps(s, field)[i + 1], c[field])
             r == coordSet(c, field, tmp, adjust)
             rest == setVectorFrom([s EXCEPT !.coordinates_p[i + 1] = r.coord],
                                   field, v, adjust, i + 1, r.ok /\ ok)
         IN  [rest EXCEPT !.calls = <<[which |-> i, tmp |-> tmp]>> \o @]

setWorldAxisNames(s, names) == setVectorFrom(s, "worldAxisNames", names, TRUE, 0, TRUE)

setWorldAxisUnits(s, units, adjust) == setVectorFrom(s, "worldAxisUnits", units, adjust, 0, TRUE)

setReferencePixel(s, refPix) == setVectorFrom(s, "referencePixel", refPix, TRUE, 0, TRUE)

setIncrement(s, inc) == setVectorFrom(s, "increment", inc, TRUE, 0, TRUE)

setReferenceValue(s, refval) == setVectorFrom(s, "referenceValue", refval, TRUE, 0, TRUE)

(***************************************************************************)
(* subImage.  crpix has nPixelAxes() elements and cdelt nWorldAxes(); the  *)
(* loop runs over the pixel axes and writes cdelt(i) for each of them.     *)
(* With fewer world than pixel axes that write is past the end of cdelt:   *)
(* a build with array index checking throws, one without it writes outside *)
(* the vector, and the elements of cdelt stay as they were.                *)
(***************************************************************************)
\* (crpix(i) - originShift(i)) / pixinc(i) and cdelt(i) * pixinc(i) for the
\* axes the loop reaches inside the vector.
SubImagePixel(crpix, originShift, pixinc) ==
    [i \in 1..Len(crpix) |-> Quotient(crpix[i] - originShift[i], pixinc[i])]

SubImageIncrement(cdelt, pixinc, n) ==
    [i \in 1..Len(cdelt) |-> IF i <= n THEN cdelt[i] * pixinc[i] ELSE cdelt[i]]

\* The system subImage returns when it runs to its end.
SubImageCoords(s, originShift, pixinc) ==
    LET coords == copy(s)
        crpix == SubImagePixel(referencePixel(coords), originShift, pixinc)
        cdelt == SubImageIncrement(increment(coords), pixinc, nPixelAxes(s))
    IN  setIncrement(setReferencePixel(coords, crpix).cs, cdelt).cs

\* CoordinateSystem::subImage: the outcomes of a call, each the receiver after
\* the call and, when the call returned, the system it returned.  A pixinc(i)
\* below 1 ends every run of the loop in an exception.
subImage(s, originShift, pixinc) ==
    IF Len(originShift) /= nPixelAxes(s) \/ Len(pixinc) /= nPixelAxes(s)
    THEN {[ok |-> FALSE, cs |-> s, coords |-> EmptySystem]}
    ELSE IF \E i \in 1..nPixelAxes(s) : pixinc[i] < 1
    THEN {[ok |-> FALSE, cs |-> s, coords |-> EmptySystem]}
    ELSE IF nPixelAxes(s) > nWorldAxes(s)
    THEN {[ok |-> FALSE, cs |-> s, coords |-> EmptySystem],
          [ok |-> TRUE, cs |-> s, coords |-> SubImageCoords(s, originShift, pixinc)]}
    ELSE {[ok |-> TRUE, cs |-> s, coords |-> SubImageCoords(s, originShift, pixinc)]}

(***************************************************************************)
(* near.  CoordinateSystem::near compares the numbers of sub-coordinates   *)
(* and of axes and then walks the sub-coordinates; the near of a concrete  *)
(* sub-coordinate (external) selects the pixel axes that are not excluded  *)
(* and calls Coordinate::doNearPixel.  The units of the model are single   *)
(* tokens of at most 8 characters, so that the comparison of their leading *)
(* upper-cased tokens is the comparison of their upper-cased, padded forms.*)
(***************************************************************************)
\* upcase() followed by the padding with blanks to 8 characters, for the names
\* and the units of the model; a string already in that form is left as it is.
Upcased ==
    [x |-> "X       ", y |-> "Y       ", a |-> "A       ", b |-> "B       ",
     c |-> "C       ", long |-> "LONG    ", lat |-> "LAT     ",
     freq |-> "FREQ    ", stokes |-> "STOKES  ",
     rad |-> "RAD     ", deg |-> "DEG     ", Hz |-> "HZ      ",
     km |-> "KM      ", m |-> "M       "]

Upcase8(str) ==
    IF str = "" THEN "        "
    ELSE IF str \in DOMAIN Upcased THEN Upcased[str]
    ELSE str

\* Coordinate::doNearPixel; thisAxes and otherAxes select the axes compared.
doNearPixel(c, other, thisAxes, otherAxes) ==
    LET thisPC == c.linearTransform
        otherPC == other.linearTransform
        AxisNear(i) ==
            /\ Upcase8(c.worldAxisUnits[i]) = Upcase8(other.worldAxisUnits[i])
            /\ near(c.referenceValue[i], other.referenceValue[i])
            /\ near(c.increment[i], other.increment[i])
            /\ near(c.referencePixel[i], other.referencePixel[i])
            /\ \A j \in 1..Len(thisPC[i]) : near(thisPC[i][j], otherPC[i][j])
            /\ \A j \in 1..Len(thisPC[i]) : near(thisPC[j][i], otherPC[j][i])
    IN  IF c.type /= other.type
        THEN FALSE
        ELSE IF (\A i \in DOMAIN thisAxes : ~thisAxes[i]) /\ (\A i \in DOMAIN otherAxes : ~otherAxes[i])
        THEN TRUE
        ELSE IF CoordNPixelAxes(c) /= CoordNPixelAxes(other)
        THEN FALSE
        ELSE IF CoordNWorldAxes(c) /= CoordNWorldAxes(other)
        THEN FALSE
        ELSE IF Len(thisPC) /= Len(otherPC)
        THEN FALSE
        ELSE \A i \in 1..CoordNPixelAxes(c) : (thisAxes[i] /\ otherAxes[i]) => AxisNear(i)

\* near(pOther, excludeAxes, tol) of a sub-coordinate: every pixel axis that
\* is not in excludeAxes is compared.
coordNear(c, other, excludeAxes) ==
    LET excluded == {excludeAxes[k] : k \in 1..Len(excludeAxes)}
        axes(n) == [i \in 1..n |-> (i - 1) \notin excluded]
    IN  doNearPixel(c, other, axes(CoordNPixelAxes(c)), axes(CoordNPixelAxes(other)))

\* CoordinateSystem::worldAxes / pixelAxes: where the axes of sub-coordinate
\* whichCoord are in the system, -1 for the ones that are not found.
AxesOf(maps, n, whichCoord) ==
    [j \in 1..Len(maps[whichCoord + 1]) |->
        LET found == {i \in 0..(n - 1) :
                         ScanMaps(maps, i) = [coordinate |-> whichCoord, axisInCoordinate |-> j - 1]}
        IN  IF found = {} THEN -1 ELSE CHOOSE i \in found : \A i2 \in found : i2 <= i]

worldAxes(s, whichCoord) == AxesOf(s.world_maps_p, nWorldAxes(s), whichCoord)

pixelAxes(s, whichCoord) == AxesOf(s.pixel_maps_p, nPixelAxes(s), whichCoord)

\* The axes of sub-coordinate i that the excluded pixel axes of the system
\* are, in the order of excludePixelAxes.
RECURSIVE ExcludeAxes(_, _, _)
ExcludeAxes(s, excludePixelAxes, i) ==
    IF excludePixelAxes = << >>
    THEN << >>
    ELSE LET f == findPixelAxis(s, Head(excludePixelAxes))
         IN  (IF f.coordinate = i THEN <<f.axisInCoordinate>> ELSE << >>)
                 \o ExcludeAxes(s, Tail(excludePixelAxes), i)

\* The loop of CoordinateSystem::near over the sub-coordinates from i on: a
\* sub-coordinate with an exposed world axis ends the loop, with the result
\* of its own near.
RECURSIVE nearFrom(_, _, _, _)
nearFrom(s, cSys, excludePixelAxes, i) ==
    IF i >= nCoordinates(s)
    THEN TRUE
    ELSE IF s.coordinates_p[i + 1].type /= cSys.coordinates_p[i + 1].type
    THEN FALSE
    ELSE IF pixelAxes(s, i) /= pixelAxes(cSys, i)
    THEN FALSE
    ELSE IF worldAxes(s, i) /= worldAxes(cSys, i)
    THEN FALSE
    ELSE LET wa == worldAxes(s, i)
             allGone == \A j \in 1..Len(wa) : wa[j] < 0
             sameOrigin == \A j \in 1..Len(wa) :
                 wa[j] >= 0 => ScanMaps(s.world_maps_p, wa[j]) = ScanMaps(cSys.world_maps_p, wa[j])
         IN  IF allGone
             THEN nearFrom(s, cSys, excludePixelAxes, i + 1)
             ELSE IF ~sameOrigin
             THEN FALSE
             ELSE coordNear(s.coordinates_p[i + 1], cSys.coordinates_p[i + 1],
                            ExcludeAxes(s, excludePixelAxes, i))

\* CoordinateSystem::near(pOther, excludePixelAxes, tol) for another system
\* and excluded axes that are pixel axes of this one.
nearSystem(s, cSys, excludePixelAxes) ==
    IF nCoordinates(s) /= nCoordinates(cSys)
    THEN FALSE
    ELSE IF nPixelAxes(s) /= nPixelAxes(cSys)
    THEN FALSE
    ELSE IF nWorldAxes(s) /= nWorldAxes(cSys)
    THEN FALSE
    ELSE nearFrom(s, cSys, excludePixelAxes, 0)

(***************************************************************************)
(* The setters and subImage on the systems of the catalogue.  A setter is  *)
(* called on a system whose descriptors are still those of the catalogue;  *)
(* the program goes on with the system subImage returns.                   *)
(***************************************************************************)
MaxInc == 2             \* pixinc elements are drawn from 0..MaxInc
MaxShift == 1           \* originShift elements are drawn from 0..MaxShift

\* The replacement value the removals of these systems are given.
ReplValS == 17

\* A LinearCoordinate of an image with reference pixel (256, 256).
LinearImage == [Linear EXCEPT !.referencePixel = <<256, 256>>]

\* Every sub-coordinate of the system is as the catalogue has it.
Pristine(s) == \A i \in 1..nCoordinates(s) : s.coordinates_p[i] \in Catalogue

\* The vectors handed to the setters of a system of n axes.
NewNames(n) == {[i \in 1..n |-> <<"a", "b", "c">>[i]]}

NewUnits(n) == [1..n -> {"m", "rad"}]

NewValues(n) == {[i \in 1..n |-> 4 + i]}

SetterInputs(field, n) ==
    CASE field = "worldAxisNames" -> NewNames(n)
      [] field = "worldAxisUnits" -> NewUnits(n)
      [] OTHER -> NewValues(n)

SetterFields ==
    {"worldAxisNames", "worldAxisUnits", "referencePixel", "increment", "referenceValue"}

\* The number of elements of the vector the setter of `field` takes.
SetterAxes(s, field) == IF field = "referencePixel" THEN nPixelAxes(s) ELSE nWorldAxes(s)

SetVector(field, v, adjust) ==
    LET r == setVectorFrom(cs, field, v, adjust, 0, TRUE)
    IN  /\ Pristine(cs)
        /\ nCoordinates(cs) > 0
        /\ cs' = r.cs
        /\ last' = [op |-> field, ok |-> r.ok, in |-> v, before |-> cs, calls |-> r.calls]
        /\ UNCHANGED <<given, pix, threads>>

\* Exact divisions only: the values of the model are whole numbers.
ExactSubImage(s, originShift, pixinc) ==
    \A i \in 1..nPixelAxes(s) :
        pixinc[i] >= 1 => IsMultiple(referencePixel(s)[i] - originShift[i], pixinc[i])

SubImage(originShift, pixinc) ==
    /\ Pristine(cs)
    /\ nCoordinates(cs) > 0
    /\ ExactSubImage(cs, originShift, pixinc)
    /\ \E r \in subImage(cs, originShift, pixinc) :
          /\ cs' = IF r.ok THEN r.coords ELSE r.cs
          /\ last' = [op |-> "subImage", ok |-> r.ok, originShift |-> originShift,
                      pixinc |-> pixinc, before |-> cs, receiver |-> r.cs]
    /\ UNCHANGED <<given, pix, threads>>

\* near of the system against the system it was before the last setter or
\* subImage, with no axis or with pixel axis 0 excluded.
Near(excludePixelAxes) ==
    /\ last.op \in SetterFields \cup {"subImage"}
    /\ \A k \in 1..Len(excludePixelAxes) : excludePixelAxes[k] < nPixelAxes(cs)
    /\ last' = [op |-> "near", ok |-> TRUE, other |-> last.before,
                excludePixelAxes |-> excludePixelAxes,
                ret |-> nearSystem(cs, last.before, excludePixelAxes)]
    /\ UNCHANGED <<cs, given, pix, threads>>

\* The structure of the system is built first, with one replacement value.
NextS ==
    \/ \E c \in Catalogue : Pristine(cs) /\ AddCoordinate(c)
    \/ \E wo \in Perms(nWorldAxes(cs)), po \in Perms(nPixelAxes(cs)) :
           Pristine(cs) /\ Transpose(wo, po)
    \/ \E axis \in 0..(nWorldAxes(cs) - 1) : Pristine(cs) /\ RemoveWorldAxis(axis, ReplValS)
    \/ \E axis \in 0..(nPixelAxes(cs) - 1) : Pristine(cs) /\ RemovePixelAxis(axis, ReplValS)
    \/ \E field \in SetterFields :
           \E v \in SetterInputs(field, SetterAxes(cs, field)) : SetVector(field, v, TRUE)
    \/ \E shift \in 0..MaxShift, inc \in 0..MaxInc :
           SubImage([i \in 1..nPixelAxes(cs) |-> shift], [i \in 1..nPixelAxes(cs) |-> inc])
    \/ \E excludePixelAxes \in {<< >>, <<0>>} : Near(excludePixelAxes)

SpecS == Init /\ [][NextS]_vars

(***************************************************************************)
(* Properties of subImage and of the setters.                              *)
(***************************************************************************)
\* What C15 says of a call subImage(originShift, pixinc) on the system s that
\* ended with the receiver `receiver` and, if ok, returned coords.
SubImageAsStated(s, originShift, pixinc, ok, receiver, coords) ==
    /\ receiver = s
    /\ IF \A i \in 1..nPixelAxes(s) : pixinc[i] >= 1
       THEN /\ ok
            /\ \A i \in 1..nPixelAxes(s) :
                  /\ referencePixel(coords)[i] =
                        Quotient(referencePixel(s)[i] - originShift[i], pixinc[i])
                  /\ i \in DOMAIN increment(coords)
                  /\ increment(coords)[i] = increment(s)[i] * pixinc[i]
       ELSE ~ok

\* C15 as stated: subImage with every pixinc(i) >= 1 returns a system whose
\* reference pixel on pixel axis i is (refpix(i) - originShift(i)) / pixinc(i)
\* and whose increment(i) is increment(i) * pixinc(i); with a pixinc(i) < 1 it
\* fails; the receiver is unchanged either way.
C15_SubImage ==
    last.op = "subImage" =>
        SubImageAsStated(last.before, last.originShift, last.pixinc,
                         last.ok, last.receiver, cs)

\* C16 as stated: when toWorld or toPixel of the system has just returned
\* False, the system's own error slot holds the message of a sub-coordinate
\* whose transform failed.
C16_SystemErrorSet ==
    (last.op \in {"toWorld", "toPixel"} /\ ~last.ok) =>
        \E i \in 1..nCoordinates(cs) :
            /\ cs.coordinates_p[i].error_p # << >>
            /\ cs.error_p = cs.coordinates_p[i].error_p

\* The vector C17 says sub-coordinate i (from 1) of the system s is handed by
\* the setter of `field` called with v: its current vector, overwritten at the
\* exposed positions.
StatedSetterVector(s, field, v, i) ==
    LET map == SetterMaps(s, field)[i]
        current == s.coordinates_p[i][field]
    IN  [j \in 1..Len(current) |-> IF map[j] < 0 THEN current[j] ELSE v[map[j] + 1]]

\* C17: a vector setter of the system calls the setter of every sub-coordinate
\* exactly once and in order, also after a failure, hands it the current
\* vector of the sub-coordinate overwritten at the exposed positions from the
\* caller's vector, leaves each sub-coordinate as its own setter left it, and
\* returns the AND of the results of the calls.
C17_SettersCallEveryCoordinate ==
    last.op \in SetterFields =>
        LET b == last.before
            n == nCoordinates(b)
            result(i) == coordSet(b.coordinates_p[i], last.op, last.calls[i].tmp, TRUE)
        IN  /\ Len(last.calls) = n
            /\ \A i \in 1..n :
                  /\ last.calls[i].which = i - 1
                  /\ last.calls[i].tmp = StatedSetterVector(b, last.op, last.in, i)
                  /\ cs.coordinates_p[i] = result(i).coord
            /\ last.ok <=> \A i \in 1..n : result(i).ok
            /\ cs = [b EXCEPT !.coordinates_p = cs.coordinates_p]

\* setWorldAxisUnits has failed on a sub-coordinate and has changed a later
\* one, which has a removed world axis whose unit it kept.
C17_Witness ==
    /\ last.op = "worldAxisUnits"
    /\ ~last.ok
    /\ \E i \in 1..nCoordinates(cs), k \in 1..nCoordinates(cs) :
          /\ i < k
          /\ ~coordSet(last.before.coordinates_p[i], last.op, last.calls[i].tmp, TRUE).ok
          /\ cs.coordinates_p[k].worldAxisUnits # last.before.coordinates_p[k].worldAxisUnits
          /\ \E j \in 1..Len(cs.world_maps_p[k]) :
                /\ cs.world_maps_p[k][j] < 0
                /\ cs.coordinates_p[k].worldAxisUnits[j] = "km"

\* C18 as stated: near returns true only if the two systems have the same
\* number of sub-coordinates and every pair of sub-coordinates at the same
\* index has the same kind, the same exposed world and pixel maps, and passes
\* the sub-coordinate near on the axes that are not excluded.
C18_NearChecksEveryCoordinate ==
    (last.op = "near" /\ last.ret) =>
        /\ nCoordinates(cs) = nCoordinates(last.other)
        /\ \A i \in 1..nCoordinates(cs) :
              /\ cs.coordinates_p[i].type = last.other.coordinates_p[i].type
              /\ worldAxes(cs, i - 1) = worldAxes(last.other, i - 1)
              /\ pixelAxes(cs, i - 1) = pixelAxes(last.other, i - 1)
              /\ coordNear(cs.coordinates_p[i], last.other.coordinates_p[i],
                           ExcludeAxes(cs, last.excludePixelAxes, i - 1))

(***************************************************************************)
(* The FITS bridge.  A header is a function from keys to values; a key is  *)
(* the pair of the prefix ("" for the keys written without it) and the     *)
(* name.  The projection, the direction frame and the FITS routines of the *)
(* SpectralCoordinate are external: every DirectionCoordinate here is a    *)
(* J2000 one in the SIN projection with parameters (0, 0), and the         *)
(* spectral routines write and read the axis type "FREQ    ".             *)
(***************************************************************************)
\* A Direction coordinate whose PC matrix is the identity: the rotation angles
\* of the other one are not whole numbers of degrees.
DirectionSky == [Direction EXCEPT !.linearTransform = << <<1, 0>>, <<0, 1>> >>]

\* Stokes coordinates of I, Q, U, V and of I, Q, V (not an arithmetic sequence).
StokesIQUV == [Stokes EXCEPT !.stokes = <<1, 2, 3, 4>>]

StokesIQV == [Stokes EXCEPT !.stokes = <<1, 2, 4>>]

EmptyHeader == [k \in {} |-> 0]

isDefined(header, key) == key \in DOMAIN header

define(header, key, value) ==
    [k \in DOMAIN header \cup {key} |-> IF k = key THEN value ELSE header[k]]

\* Stokes::FITSValue for the Stokes types I, Q, U, V, RR, RL, LR, LL, XX, XY,
\* YX, YY, numbered from 1 in this order.
FITSValue(t) == <<1, 2, 3, 4, -1, -3, -4, -2, -5, -7, -8, -6>>[t]

\* atan2 in degrees, on the pairs the PC matrices of the model give.
Atan2Deg(y, x) ==
    CASE y = 0 /\ x >= 0 -> 0
      [] y = 0 /\ x < 0 -> 180
      [] y > 0 /\ x = 0 -> 90
      [] y < 0 /\ x = 0 -> -90

\* CoordinateSystem::findCoordinate(type): the first sub-coordinate of the
\* type, -1 when there is none.
findCoordinate(s, type) ==
    LET is == {i \in 1..nCoordinates(s) : s.coordinates_p[i].type = type}
    IN  IF is = {} THEN -1 ELSE (CHOOSE i \in is : \A i2 \in is : i <= i2) - 1

\* The loop that finds longAxis, latAxis, specAxis and stokesAxis: the last
\* world axis of the system that is one of `axes` of sub-coordinate coord.
SpecialAxis(s, coord, axes) ==
    LET is == {i \in 0..(nWorldAxes(s) - 1) :
                  /\ findWorldAxis(s, i).coordinate = coord
                  /\ findWorldAxis(s, i).axisInCoordinate \in axes}
    IN  IF is = {} THEN -1 ELSE CHOOSE i \in is : \A i2 \in is : i2 <= i

\* v(i) = x, and no write when i is outside v.
WriteAt(v, i, x) == [k \in 1..Len(v) |-> IF k = i + 1 THEN x ELSE v[k]]

\* The Stokes keywords: crval, crpix and cdelt on the Stokes axis.
StokesKeywords(stokes) ==
    LET n == Len(stokes)
        inc == IF n > 1 THEN FITSValue(stokes[2]) - FITSValue(stokes[1]) ELSE 1
        inorder == \A i \in 3..n : FITSValue(stokes[i]) - FITSValue(stokes[i - 1]) = inc
    IN  IF inorder
        THEN [crval |-> FITSValue(stokes[1]), crpix |-> 1, cdelt |-> inc]
        ELSE [crval |-> FITSValue(stokes[1]) + 200, crpix |-> 1, cdelt |-> 1]

\* The degenerate pixel axes added when there are more world than pixel axes:
\* world axis by world axis, the next element of v or 1.
AddDegenerate(coordsys, v) ==
    LET HasPixel(worldAxis) ==
            LET f == findWorldAxis(coordsys, worldAxis)
            IN  pixelAxes(coordsys, f.coordinate)[f.axisInCoordinate + 1] >= 0
        count(worldAxis) == Cardinality({w \in 0..(worldAxis - 1) : HasPixel(w)})
    IN  [k \in 1..nWorldAxes(coordsys) |->
            IF HasPixel(k - 1) THEN v[count(k - 1) + 1] ELSE 1]

\* SpectralCoordinate::toFITS (external): the type of the spectral axis.
SpectralToFITS(header, sprefix, specAxis) ==
    define(header, <<sprefix, "type">>,
           WriteAt(header[<<sprefix, "type">>], specAxis, "FREQ    "))

\* The keys without the last: a check that lets a header holding unit through.
CollisionKeysButUnit == {"rval", "rpix", "delt", "type"}

\* The five keys toFITSHeader refuses to overwrite.
CollisionKeys == {"rval", "rpix", "delt", "type", "unit"}

\* The sky, spectral and Stokes sub-coordinates of the system and the world
\* axes they are on, -1 for the ones that are not found.
FITSAxes(coordsys) ==
    LET Axis(coord, a) == IF coord < 0 THEN -1 ELSE SpecialAxis(coordsys, coord, {a})
        Found(skyCoord, specCoord, stokesCoord) ==
            [skyCoord |-> skyCoord, specCoord |-> specCoord, stokesCoord |-> stokesCoord,
             longAxis |-> Axis(skyCoord, 0), latAxis |-> Axis(skyCoord, 1),
             specAxis |-> Axis(specCoord, 0), stokesAxis |-> Axis(stokesCoord, 0)]
    IN  Found(findCoordinate(coordsys, "DIRECTION"), findCoordinate(coordsys, "SPECTRAL"),
              findCoordinate(coordsys, "STOKES"))

\* The units the copy is given: degrees on the sky axes, Hz on the spectral
\* axis, none on the Stokes axis.
FITSUnits(coordsys, ax) ==
    [i \in 1..nWorldAxes(coordsys) |->
        CASE i - 1 \in {ax.longAxis, ax.latAxis} -> "deg"
          [] i - 1 = ax.specAxis -> "Hz"
          [] i - 1 = ax.stokesAxis -> ""
          [] OTHER -> worldAxisUnits(coordsys)[i]]

\* ctype
FITSTypes(coordsys, ax) ==
    [i \in 1..nWorldAxes(coordsys) |->
        CASE i - 1 = ax.longAxis -> "RA---SIN"
          [] i - 1 = ax.latAxis -> "DEC--SIN"
          [] i - 1 = ax.specAxis -> worldAxisNames(coordsys)[i]
          [] i - 1 = ax.stokesAxis -> "STOKES  "
          [] OTHER -> Upcase8(worldAxisNames(coordsys)[i])]

\* crota, of the PC matrix pc of n rows.
FITSRota(pc, n, ax) ==
    IF ax.longAxis >= 0 /\ ax.latAxis >= 0
    THEN LET at(i, j) == pc[i + 1][j + 1]
             rholong == Atan2Deg(at(ax.latAxis, ax.longAxis), at(ax.longAxis, ax.longAxis))
             rholat == Atan2Deg(0 - at(ax.longAxis, ax.latAxis), at(ax.latAxis, ax.latAxis))
         IN  WriteAt([i \in 1..n |-> 0], ax.latAxis, Quotient(rholong + rholat, 2))
    ELSE [i \in 1..n |-> 0]

\* v with the Stokes keyword written on the Stokes axis, when there is a
\* Stokes sub-coordinate.
WithStokes(v, coordsys, ax, keyword) ==
    IF ax.stokesCoord >= 0
    THEN WriteAt(v, ax.stokesAxis,
                 StokesKeywords(coordsys.coordinates_p[ax.stokesCoord + 1].stokes)[keyword])
    ELSE v

\* v after the degenerate axes are added, when there are fewer pixel than
\* world axes.
Padded(v, coordsys) ==
    IF nPixelAxes(coordsys) < nWorldAxes(coordsys) THEN AddDegenerate(coordsys, v) ELSE v

\* The keys toFITSHeader defines, in the order it defines them; crota is the
\* vector of the rotation angles.
WriteHeader(header, coordsys, ax, pc, crota, offset, sprefix, writeWCS) ==
    LET n == nWorldAxes(coordsys)
        crpix0 == [i \in 1..nPixelAxes(coordsys) |-> referencePixel(coordsys)[i] + offset]
        Keys(h) ==
            define(define(define(define(define(define(h,
                <<sprefix, "type">>, FITSTypes(coordsys, ax)),
                <<sprefix, "rval">>, WithStokes(referenceValue(coordsys), coordsys, ax, "crval")),
                <<sprefix, "delt">>, WithStokes(increment(coordsys), coordsys, ax, "cdelt")),
                <<sprefix, "rota">>, crota),
                <<sprefix, "rpix">>, Padded(WithStokes(crpix0, coordsys, ax, "crpix"), coordsys)),
                <<sprefix, "unit">>,
                    [i \in 1..n |-> Upcase8(worldAxisUnits(coordsys)[i])])
        Epoch(h) ==
            IF ax.skyCoord >= 0
            THEN define(h, <<"", IF writeWCS THEN "equinox" ELSE "epoch">>, 2000)
            ELSE h
        PC(h) == IF writeWCS /\ nPixelAxes(coordsys) = n THEN define(h, <<"", "pc">>, pc) ELSE h
        Projp(h) == IF ax.skyCoord >= 0 /\ writeWCS THEN define(h, <<"", "projp">>, <<0, 0>>) ELSE h
        Spectrum(h) == IF ax.specAxis > 1 THEN SpectralToFITS(h, sprefix, ax.specAxis) ELSE h
    IN  Spectrum(Projp(Keys(PC(Epoch(header)))))

\* The axis indices toFITSHeader uses on the vectors of n elements and on the
\* PC matrix: every i of the loops; longAxis and latAxis, when both are found;
\* stokesAxis, when there is a Stokes sub-coordinate, found or not.
FITSIndices(n, ax) ==
    (0..(n - 1))
        \cup (IF ax.longAxis >= 0 /\ ax.latAxis >= 0 THEN {ax.longAxis, ax.latAxis} ELSE {})
        \cup (IF ax.stokesCoord >= 0 THEN {ax.stokesAxis} ELSE {})

\* CoordinateSystem::toFITSHeader: the outcomes of a call, each the header,
\* the shape and the receiver after it, with the axis indices at which it has
\* indexed crval, crpix, cdelt, ctype and the PC matrix and the axes it has
\* called the SpectralCoordinate's toFITS for.  The rotation angle is garbage
\* when the PC matrix is read outside its columns; a write outside a vector
\* changes none of its elements.
toFITSHeader(s, header, shape, oneRelative, sprefix, writeWCS) ==
    LET offset == IF oneRelative THEN 1 ELSE 0
        unchanged(thrown, indices) ==
            [ok |-> FALSE, thrown |-> thrown, header |-> header, shape |-> shape, cs |-> s,
             indices |-> indices, toFITS |-> << >>]
        Outcomes(coordsys, ax, nPix) ==
            LET indices == FITSIndices(nWorldAxes(s), ax)
                returned(crota) ==
                    [ok |-> TRUE, thrown |-> FALSE,
                     header |-> WriteHeader(header, coordsys, ax, linearTransform(s), crota,
                                            offset, sprefix, writeWCS),
                     shape |-> Padded(shape, coordsys), cs |-> s,
                     indices |-> indices,
                     toFITS |-> IF ax.specAxis > 1 THEN <<ax.specAxis>> ELSE << >>]
            IN  IF /\ ax.longAxis >= 0 /\ ax.latAxis >= 0
                   /\ (ax.longAxis >= nPix \/ ax.latAxis >= nPix)
                THEN {unchanged(TRUE, indices)}
                         \cup {returned(WriteAt([i \in 1..nWorldAxes(s) |-> 0], ax.latAxis, garbage)) :
                                  garbage \in {0, 90}}
                ELSE IF ax.stokesCoord >= 0 /\ (ax.stokesAxis < 0 \/ ax.stokesAxis >= nPix)
                THEN {unchanged(TRUE, indices),
                      returned(FITSRota(linearTransform(s), nWorldAxes(s), ax))}
                ELSE {returned(FITSRota(linearTransform(s), nWorldAxes(s), ax))}
        Canonical(copied, ax) ==
            Outcomes(setWorldAxisUnits(copied, FITSUnits(copied, ax), TRUE).cs, ax,
                     nPixelAxes(copied))
        Export(copied) == Canonical(copied, FITSAxes(copied))
    IN  IF \E key \in CollisionKeys : isDefined(header, <<sprefix, key>>)
        THEN {unchanged(FALSE, {})}
        ELSE Export(copy(s))

\* cos and sin of a whole number of right angles, in degrees.
CosDeg(a) == <<1, 0, -1, 0>>[((a \div 90) % 4) + 1]

SinDeg(a) == <<0, 1, 0, -1>>[((a \div 90) % 4) + 1]

IdentityMatrix(n) == [i \in 1..n |-> [j \in 1..n |-> IF i = j THEN 1 ELSE 0]]

\* The PC matrix made of crota: a rotation by the first angle that is not
\* near 0, in the plane of its axis and the axis before it (after it for the
\* first axis).
RotaToPC(crota) ==
    LET n == Len(crota)
        turned == {i \in 0..(n - 1) : ~near(crota[i + 1], 0)}
        rotationAxis == IF turned = {} THEN -1 ELSE CHOOSE i \in turned : \A i2 \in turned : i <= i2
        c == CosDeg(crota[rotationAxis + 1])
        sn == SinDeg(crota[rotationAxis + 1])
        lo == IF rotationAxis > 0 THEN rotationAxis - 1 ELSE rotationAxis + 1
        hi == rotationAxis
    IN  IF rotationAxis >= 0 /\ n > 1
        THEN [i \in 1..n |-> [j \in 1..n |->
                CASE (i - 1 = lo /\ j - 1 = lo) \/ (i - 1 = hi /\ j - 1 = hi) -> c
                  [] i - 1 = lo /\ j - 1 = hi -> 0 - sn
                  [] i - 1 = hi /\ j - 1 = lo -> sn
                  [] OTHER -> IdentityMatrix(n)[i][j]]]
        ELSE IdentityMatrix(n)

\* ctype(i).contains(...) for the axis types of the model.
IsLongitudeType(t) == t \in {"RA---SIN", "LONG    "}

IsLatitudeType(t) == t \in {"DEC--SIN", "LAT     "}

IsStokesType(t) == t = "STOKES  "

IsSpectralType(t) == t = "FREQ    "

\* The projection named by an axis type: what follows its last '-'.
ProjectionName(t) == IF t \in {"RA---SIN", "DEC--SIN"} THEN "SIN" ELSE t

\* The unit a FITS unit string stands for.
FITSUnit(u) == CHOOSE k \in KnownUnits : Upcase8(k) = u

\* The last axis of a kind, -1 when there is none.
LastAxis(ctype, IsKind(_)) ==
    LET is == {i \in 0..(Len(ctype) - 1) : IsKind(ctype[i + 1])}
    IN  IF is = {} THEN -1 ELSE CHOOSE i \in is : \A i2 \in is : i2 <= i

\* The values the Stokes axis of the header stands for, and the Stokes types
\* of the longest prefix of them the table knows.
StokesTable(v) ==
    CASE v \in 1..4 -> v
      [] v = -1 -> 5
      [] v = -2 -> 8
      [] v = -3 -> 6
      [] v = -4 -> 7
      [] v = -5 -> 9
      [] v = -6 -> 12
      [] v = -7 -> 10
      [] v = -8 -> 11
      [] OTHER -> 0

\* Int(floor(tmp + 0.01)) when tmp >= 0, Int(floor(tmp - 0.01)) otherwise, of
\* a whole tmp: floor(-1.01) is -2.
StokesRounded(tmp) == IF tmp >= 0 THEN tmp ELSE tmp - 1

DecodeStokes(crval, crpix, cdelt) ==
    LET value(i) == StokesTable(StokesRounded(crval + (i - crpix) * cdelt))
        known == {k \in 0..4 : \A i \in 0..(k - 1) : value(i) /= 0}
        length == CHOOSE k \in known : \A k2 \in known : k2 <= k
    IN  [i \in 1..length |-> value(i - 1)]

\* The constructors of the sub-coordinates (external).
DirectionCoordinate(refval, inc, xform, refpix) ==
    [Direction EXCEPT !.referenceValue = refval, !.increment = inc,
                      !.linearTransform = xform, !.referencePixel = refpix]

StokesCoordinate(stokes) ==
    [Stokes EXCEPT !.stokes = stokes, !.referenceValue = <<stokes[1]>>]

LinearCoordinate(names, units, refval, inc, xform, refpix) ==
    [Linear EXCEPT !.worldAxisNames = names, !.worldAxisUnits = units,
                   !.referenceValue = refval, !.increment = inc,
                   !.linearTransform = xform, !.referencePixel = refpix]

\* SpectralCoordinate::fromFITS (external).  It is not handed the oneRelative
\* flag and takes the reference pixel of the header as counted from one.
SpectralFromFITS(header, sprefix, specAxis) ==
    [Spectral EXCEPT !.referenceValue = <<header[<<sprefix, "rval">>][specAxis + 1]>>,
                     !.increment = <<header[<<sprefix, "delt">>][specAxis + 1]>>,
                     !.referencePixel = <<header[<<sprefix, "rpix">>][specAxis + 1] - 1>>]

\* The elements of v on the axes of `axes`, in the order of the axes.
RECURSIVE Pick(_, _, _)
Pick(v, axes, i) ==
    IF i > Len(v)
    THEN << >>
    ELSE (IF (i - 1) \in axes THEN <<v[i]>> ELSE << >>) \o Pick(v, axes, i + 1)

\* An order that puts the latitude first and the longitude second.
FITSOrderLatitudeFirst(n, longAxis, latAxis, stokesAxis, specAxis, garbage) ==
    LET special == {longAxis, latAxis, stokesAxis, specAxis}
        nspecial == Cardinality({a \in special : a >= 0})
        linused(i) == Cardinality({k \in 0..(i - 1) : k \notin special})
    IN  [k \in 1..n |->
            LET i == k - 1
            IN  CASE i = longAxis -> 1
                  [] i = latAxis -> 0
                  [] i = stokesAxis -> IF longAxis >= 0 THEN 2 ELSE 0
                  [] i = specAxis -> IF longAxis >= 0 /\ stokesAxis >= 0 THEN 3
                                     ELSE IF longAxis >= 0 THEN 2
                                     ELSE IF stokesAxis >= 0 THEN 0
                                     ELSE garbage
                  [] OTHER -> nspecial + linused(i)]

\* The transpose order fromFITSHeader computes; garbage is what the element of
\* a spectral axis holds when there is neither a Stokes nor a longitude axis.
FITSOrder(n, longAxis, latAxis, stokesAxis, specAxis, garbage) ==
    LET special == {longAxis, latAxis, stokesAxis, specAxis}
        nspecial == Cardinality({a \in special : a >= 0})
        linused(i) == Cardinality({k \in 0..(i - 1) : k \notin special})
    IN  [k \in 1..n |->
            LET i == k - 1
            IN  CASE i = longAxis -> 0
                  [] i = latAxis -> 1
                  [] i = stokesAxis -> IF longAxis >= 0 THEN 2 ELSE 0
                  [] i = specAxis -> IF longAxis >= 0 /\ stokesAxis >= 0 THEN 3
                                     ELSE IF longAxis >= 0 THEN 2
                                     ELSE IF stokesAxis >= 0 THEN 0
                                     ELSE garbage
                  [] OTHER -> nspecial + linused(i)]

\* The axes of the header by kind: an axis is a longitude, else a latitude,
\* else a Stokes, else a spectral axis, else a linear one.
HeaderAxes(ctype) ==
    LET IsLat(t) == ~IsLongitudeType(t) /\ IsLatitudeType(t)
        IsStokesAxis(t) == ~IsLongitudeType(t) /\ ~IsLatitudeType(t) /\ IsStokesType(t)
        IsSpectralAxis(t) ==
            ~IsLongitudeType(t) /\ ~IsLatitudeType(t) /\ ~IsStokesType(t) /\ IsSpectralType(t)
    IN  [longs |-> Cardinality({i \in 1..Len(ctype) : IsLongitudeType(ctype[i])}),
         lats |-> Cardinality({i \in 1..Len(ctype) : IsLat(ctype[i])}),
         longAxis |-> LastAxis(ctype, IsLongitudeType),
         latAxis |-> LastAxis(ctype, IsLat),
         stokesAxis |-> LastAxis(ctype, IsStokesAxis),
         specAxis |-> LastAxis(ctype, IsSpectralAxis)]

\* The keywords fromFITSHeader reads, crpix reduced by the offset.
HeaderKeywords(header, offset, sprefix) ==
    LET Has(name) == isDefined(header, <<sprefix, name>>)
        n == Len(header[<<sprefix, "type">>])
    IN  [crval |-> header[<<sprefix, "rval">>],
         crpix |-> [i \in 1..Len(header[<<sprefix, "rpix">>]) |->
                       header[<<sprefix, "rpix">>][i] - offset],
         cdelt |-> header[<<sprefix, "delt">>],
         ctype |-> header[<<sprefix, "type">>],
         haveUnit |-> Has("unit"),
         cunit |-> IF Has("unit") THEN header[<<sprefix, "unit">>] ELSE << >>,
         pc |-> IF isDefined(header, <<"", "pc">>) THEN header[<<"", "pc">>]
                ELSE IF Has("rota") THEN RotaToPC(header[<<sprefix, "rota">>])
                ELSE IdentityMatrix(n)]

\* The DirectionCoordinate of the header.
HeaderDirection(k, ax) ==
    LET unitOf(i) == IF k.haveUnit THEN FITSUnit(k.cunit[i + 1]) ELSE "deg"
        long == ax.longAxis
        lat == ax.latAxis
    IN  DirectionCoordinate(
            <<Rescale(k.crval[long + 1], unitOf(long), "rad"),
              Rescale(k.crval[lat + 1], unitOf(lat), "rad")>>,
            <<Rescale(k.cdelt[long + 1], unitOf(long), "rad"),
              Rescale(k.cdelt[lat + 1], unitOf(lat), "rad")>>,
            << <<k.pc[long + 1][long + 1], k.pc[long + 1][lat + 1]>>,
               <<k.pc[lat + 1][long + 1], k.pc[lat + 1][lat + 1]>> >>,
            <<k.crpix[long + 1], k.crpix[lat + 1]>>)

\* The LinearCoordinate of the axes `linear` of the header.
HeaderLinear(k, linear) ==
    LinearCoordinate(
        Pick(k.ctype, linear, 1),
        IF k.haveUnit THEN Pick(k.cunit, linear, 1) ELSE [i \in 1..Cardinality(linear) |-> ""],
        Pick(k.crval, linear, 1), Pick(k.cdelt, linear, 1),
        Pick([i \in 1..Len(k.pc) |-> Pick(k.pc[i], linear, 1)], linear, 1),
        Pick(k.crpix, linear, 1))

\* CoordinateSystem::fromFITSHeader: the outcomes of a call, each the system
\* the caller's coordsys has become and the transpose order computed for it
\* (empty when the call returns before).  A StokesCoordinate of no Stokes value
\* cannot be made.
fromFITSHeader(coordsys, header, oneRelative, sprefix) ==
    LET start == IF nCoordinates(coordsys) /= 0 THEN EmptySystem ELSE coordsys
        Has(name) == isDefined(header, <<sprefix, name>>)
        failed(s) == {[ok |-> FALSE, thrown |-> FALSE, coordsys |-> s, order |-> << >>]}
        Transposed(s, order) ==
            LET r == transpose(s, order, order)
            IN  [ok |-> r.ok, thrown |-> ~r.ok, coordsys |-> r.cs, order |-> order]
        Ordered(s, n, ax) ==
            IF ax.specAxis >= 0 /\ ax.longAxis < 0 /\ ax.stokesAxis < 0
            THEN {Transposed(s, FITSOrder(n, ax.longAxis, ax.latAxis, ax.stokesAxis,
                                          ax.specAxis, garbage)) : garbage \in -1..n}
            ELSE {Transposed(s, FITSOrder(n, ax.longAxis, ax.latAxis, ax.stokesAxis,
                                          ax.specAxis, 0))}
        AddLinear(s, k, ax, linear) ==
            Ordered(IF linear /= {} THEN addCoordinate(s, HeaderLinear(k, linear)) ELSE s,
                    Len(k.ctype), ax)
        AddSpectral(s, k, ax) ==
            AddLinear(IF ax.specAxis >= 0
                      THEN addCoordinate(s, SpectralFromFITS(header, sprefix, ax.specAxis))
                      ELSE s,
                      k, ax,
                      {i \in 0..(Len(k.ctype) - 1) :
                          i \notin {ax.longAxis, ax.latAxis, ax.stokesAxis, ax.specAxis}})
        AddStokes(s, k, ax, stokes) ==
            IF ax.stokesAxis < 0
            THEN AddSpectral(s, k, ax)
            ELSE IF stokes = << >>
            THEN failed(s)
            ELSE AddSpectral(addCoordinate(s, StokesCoordinate(stokes)), k, ax)
        AddDirection(s, k, ax) ==
            AddStokes(IF ax.longAxis >= 0 THEN addCoordinate(s, HeaderDirection(k, ax)) ELSE s,
                      k, ax,
                      IF ax.stokesAxis >= 0
                      THEN DecodeStokes(k.crval[ax.stokesAxis + 1], k.crpix[ax.stokesAxis + 1],
                                        k.cdelt[ax.stokesAxis + 1])
                      ELSE << >>)
        Classified(k, ax, n) ==
            IF \/ Len(k.crval) /= n \/ Len(k.crpix) /= n \/ Len(k.cdelt) /= n
               \/ Len(k.pc) /= n \/ (\E i \in 1..Len(k.pc) : Len(k.pc[i]) /= n)
               \/ (Len(k.cunit) > 0 /\ Len(k.cunit) /= n)
            THEN failed(start)
            ELSE IF ax.longs > 1 \/ ax.lats > 1
            THEN failed(start)
            ELSE IF (ax.longAxis >= 0) /= (ax.latAxis >= 0)
            THEN failed(start)
            ELSE IF /\ ax.longAxis >= 0
                    /\ \/ ProjectionName(k.ctype[ax.longAxis + 1]) /= ProjectionName(k.ctype[ax.latAxis + 1])
                       \/ ProjectionName(k.ctype[ax.longAxis + 1]) /= "SIN"
            THEN failed(start)
            ELSE AddDirection(start, k, ax)
        Read(k) == Classified(k, HeaderAxes(k.ctype), Len(k.ctype))
    IN  IF ~(Has("rval") /\ Has("rpix") /\ Has("delt") /\ Has("type"))
        THEN failed(start)
        ELSE Read(HeaderKeywords(header, IF oneRelative THEN 1 ELSE 0, sprefix))

(***************************************************************************)
(* Export and import on the systems of the FITS catalogue, with at most    *)
(* one removed axis.  A header is imported after the export that wrote it. *)
(***************************************************************************)
CatalogueF == {DirectionSky, Spectral, Stokes, StokesIQUV, StokesIQV, Linear}

PristineF(s) == \A i \in 1..nCoordinates(s) : s.coordinates_p[i] \in CatalogueF

\* The headers handed to toFITSHeader: the empty one, one for each key that
\* collides, and two that hold a key that does not.
HeadersF ==
    {EmptyHeader}
        \cup {define(EmptyHeader, <<"c", key>>, << >>) : key \in {"rval", "rpix", "delt", "type", "unit"}}
        \cup {define(EmptyHeader, <<"d", "rval">>, << >>),
              define(EmptyHeader, <<"c", "rota">>, << >>)}

\* The shape of an image on the pixel axes of the system.
ShapeF(s) == [i \in 1..nPixelAxes(s) |-> 4 + i]

ToFITSHeader(header, oneRelative, writeWCS) ==
    /\ \E r \in toFITSHeader(cs, header, ShapeF(cs), oneRelative, "c", writeWCS) :
          /\ cs' = r.cs
          /\ last' = [op |-> "toFITSHeader", ok |-> r.ok, thrown |-> r.thrown,
                      header |-> r.header, shape |-> r.shape, before |-> cs,
                      indices |-> r.indices, toFITS |-> r.toFITS,
                      headerBefore |-> header, shapeBefore |-> ShapeF(cs),
                      oneRelative |-> oneRelative, writeWCS |-> writeWCS]
    /\ UNCHANGED <<given, pix, threads>>

FromFITSHeader(oneRelative) ==
    /\ last.op = "toFITSHeader"
    /\ last.ok
    /\ \E r \in fromFITSHeader(cs, last.header, oneRelative, "c") :
          /\ cs' = r.coordsys
          /\ last' = [op |-> "fromFITSHeader", ok |-> r.ok, thrown |-> r.thrown,
                      order |-> r.order,
                      exported |-> last.before, header |-> last.header,
                      exportedOneRelative |-> last.oneRelative,
                      oneRelative |-> oneRelative]
    /\ UNCHANGED <<given, pix, threads>>

\* The system is built first; then it is exported and the header imported.
Building == PristineF(cs) /\ last.op \notin {"toFITSHeader", "fromFITSHeader"}

NextF ==
    \/ \E c \in CatalogueF : Building /\ AddCoordinate(c)
    \/ \E order \in Perms(nWorldAxes(cs)) :
           Building /\ nPixelAxes(cs) = nWorldAxes(cs) /\ Transpose(order, order)
    \/ \E axis \in 0..(nWorldAxes(cs) - 1) :
           Building /\ nRemoved(cs) = 0 /\ RemoveWorldAxis(axis, ReplValS)
    \/ \E axis \in 0..(nPixelAxes(cs) - 1) :
           Building /\ nRemoved(cs) = 0 /\ RemovePixelAxis(axis, ReplValS)
    \/ \E header \in HeadersF, oneRelative \in BOOLEAN, writeWCS \in BOOLEAN :
           /\ Building
           /\ header = EmptyHeader \/ (oneRelative /\ ~writeWCS)
           /\ ToFITSHeader(header, oneRelative, writeWCS)
    \/ \E oneRelative \in BOOLEAN : FromFITSHeader(oneRelative)

SpecF == Init /\ [][NextF]_vars

(***************************************************************************)
(* Import of the headers of up to MaxHeaderAxes axes, each axis a          *)
(* longitude, a latitude, a Stokes, a spectral or another axis.  An axis   *)
(* that is not a Stokes axis has crval 10 i, crpix i and cdelt i + 1 at    *)
(* position i (from one), so that no two axes are described alike.         *)
(***************************************************************************)
MaxHeaderAxes == 4      \* axes of a header handed to fromFITSHeader

AxisTypesH == {"RA---SIN", "DEC--SIN", "STOKES  ", "FREQ    ", "X       "}

\* crval, crpix and cdelt of a Stokes axis.
StokesAxesH == [crval : {1, 3, -1, -5, -8, 0, 201}, crpix : {1, 2}, cdelt : {1, -1, 2}]

StokesAxisI == [crval |-> 1, crpix |-> 1, cdelt |-> 1]

UnitOfTypeH(t) ==
    CASE t \in {"RA---SIN", "DEC--SIN"} -> "DEG     "
      [] t = "FREQ    " -> "HZ      "
      [] t = "STOKES  " -> "        "
      [] OTHER -> "KM      "

\* The header of the axes ctype, its Stokes axes described by stokes, with or
\* without the units.
HeaderOf(ctype, stokes, haveUnit) ==
    LET n == Len(ctype)
        IsStokes(i) == ctype[i] = "STOKES  "
        Core == define(define(define(define(EmptyHeader,
                    <<"c", "type">>, ctype),
                    <<"c", "rval">>, [i \in 1..n |-> IF IsStokes(i) THEN stokes.crval ELSE 10 * i]),
                    <<"c", "rpix">>, [i \in 1..n |-> IF IsStokes(i) THEN stokes.crpix ELSE i]),
                    <<"c", "delt">>, [i \in 1..n |-> IF IsStokes(i) THEN stokes.cdelt ELSE i + 1])
    IN  IF haveUnit
        THEN define(Core, <<"c", "unit">>, [i \in 1..n |-> UnitOfTypeH(ctype[i])])
        ELSE Core

\* h without the key.
Undefine(h, key) == [k \in DOMAIN h \ {key} |-> h[k]]

\* The headers handed to fromFITSHeader: every sequence of axis types with the
\* Stokes axis I; a Stokes axis of every description, alone and after another
\* axis; headers without units; a header without rpix and one whose rval is a
\* vector of another length.
HeadersH ==
    {HeaderOf(ctype, StokesAxisI, TRUE) :
        ctype \in UNION {[1..n -> AxisTypesH] : n \in 1..MaxHeaderAxes}}
      \cup {HeaderOf(ctype, stokes, TRUE) :
              ctype \in {<<"STOKES  ">>, <<"X       ", "STOKES  ">>}, stokes \in StokesAxesH}
      \cup {HeaderOf(ctype, StokesAxisI, FALSE) :
              ctype \in {<<"X       ", "DEC--SIN", "RA---SIN">>, <<"FREQ    ", "X       ">>}}
      \cup {Undefine(HeaderOf(<<"X       ">>, StokesAxisI, TRUE), <<"c", "rpix">>),
            define(HeaderOf(<<"X       ">>, StokesAxisI, TRUE), <<"c", "rval">>, <<10, 20>>)}

\* fromFITSHeader into a system that was just constructed.
ImportHeader(header, oneRelative) ==
    /\ last.op = "construct"
    /\ \E r \in fromFITSHeader(cs, header, oneRelative, "c") :
          /\ cs' = r.coordsys
          /\ last' = [op |-> "fromFITSHeader", ok |-> r.ok, thrown |-> r.thrown,
                      order |-> r.order, header |-> header, oneRelative |-> oneRelative]
    /\ UNCHANGED <<given, pix, threads>>

NextH == \E header \in HeadersH, oneRelative \in BOOLEAN : ImportHeader(header, oneRelative)

SpecH == Init /\ [][NextH]_vars

(***************************************************************************)
(* Properties of the FITS bridge.                                          *)
(***************************************************************************)
\* C19: toFITSHeader leaves the exported system as it was, whatever it
\* returns; when the header already holds rval, rpix, delt, type or unit under
\* the prefix it returns False and leaves the header and the shape as they
\* were.
C19_ExportRefusesToOverwrite ==
    last.op = "toFITSHeader" =>
        /\ cs = last.before
        /\ (\E name \in {"rval", "rpix", "delt", "type", "unit"} :
                <<"c", name>> \in DOMAIN last.headerBefore)
              => /\ ~last.ok
                 /\ ~last.thrown
                 /\ last.header = last.headerBefore
                 /\ last.shape = last.shapeBefore

\* An export into a header that holds unit has been refused, for a system
\* with a Direction coordinate in radians and a removed pixel axis.
C19_Witness ==
    /\ last.op = "toFITSHeader"
    /\ <<"c", "unit">> \in DOMAIN last.headerBefore
    /\ ~last.ok
    /\ \E i \in 1..nCoordinates(cs) : cs.coordinates_p[i] = DirectionSky
    /\ nPixelAxes(cs) < nWorldAxes(cs)

\* The systems the round trip is stated for: at most one Direction, one
\* Spectral and one Stokes sub-coordinate, the units FITS writes, an arithmetic
\* Stokes sequence; and no axis removed.
WellFormedForFITS(s) ==
    /\ \A type \in {"DIRECTION", "SPECTRAL", "STOKES"} :
          Cardinality({i \in 1..nCoordinates(s) : s.coordinates_p[i].type = type}) <= 1
    /\ \A i \in 1..nCoordinates(s) :
          LET c == s.coordinates_p[i]
          IN  /\ c.type = "DIRECTION" => c.worldAxisUnits = <<"deg", "deg">>
              /\ c.type = "SPECTRAL" => c.worldAxisUnits = <<"Hz">>
              /\ c.type = "STOKES" =>
                    /\ c.worldAxisUnits = <<"">>
                    /\ StokesKeywords(c.stokes).crval = FITSValue(c.stokes[1])
    /\ nRemoved(s) = 0

\* C20 as stated, for the Stokes axis: when a well-formed system with a Stokes
\* sub-coordinate has been exported and the header imported with the same
\* oneRelative flag, the import has returned True and the system it made has
\* a Stokes sub-coordinate of the same Stokes values.
C20_StokesRoundTrip ==
    (/\ last.op = "fromFITSHeader"
     /\ last.oneRelative = last.exportedOneRelative
     /\ WellFormedForFITS(last.exported)
     /\ findCoordinate(last.exported, "STOKES") >= 0)
        => /\ last.ok
           /\ findCoordinate(cs, "STOKES") >= 0
           /\ cs.coordinates_p[findCoordinate(cs, "STOKES") + 1].stokes =
                 last.exported.coordinates_p[findCoordinate(last.exported, "STOKES") + 1].stokes

\* The place of a kind of sub-coordinate in the stored order of an import.
ImportRank(type) ==
    CASE type = "DIRECTION" -> 0
      [] type = "STOKES" -> 1
      [] type = "SPECTRAL" -> 2
      [] OTHER -> 3

\* Axis i (from zero) of system s is the axis that entry i of the header
\* describes: a Stokes or a spectral entry that is followed by another of its
\* type is read as one of the remaining axes.
DescribedByHeader(s, header, offset, i) ==
    LET ctype == header[<<"c", "type">>]
        crval == header[<<"c", "rval">>][i + 1]
        crpix == header[<<"c", "rpix">>][i + 1] - offset
        cdelt == header[<<"c", "delt">>][i + 1]
        t == ctype[i + 1]
        last_of_type == \A k \in (i + 2)..Len(ctype) : ctype[k] /= t
        f == findWorldAxis(s, i)
        c == s.coordinates_p[f.coordinate + 1]
        a == f.axisInCoordinate + 1
    IN  /\ findPixelAxis(s, i) = f
        /\ CASE t = "RA---SIN" ->
                    c.type = "DIRECTION" /\ a = 1 /\ c.referencePixel[a] = crpix
             [] t = "DEC--SIN" ->
                    c.type = "DIRECTION" /\ a = 2 /\ c.referencePixel[a] = crpix
             [] t = "STOKES  " /\ last_of_type -> c.type = "STOKES"
             [] t = "FREQ    " /\ last_of_type ->
                    c.type = "SPECTRAL" /\ c.referenceValue[a] = crval /\ c.increment[a] = cdelt
             [] OTHER ->
                    /\ c.type = "LINEAR"
                    /\ c.worldAxisNames[a] = t
                    /\ c.referenceValue[a] = crval
                    /\ c.referencePixel[a] = crpix
                    /\ c.increment[a] = cdelt

\* C21: after fromFITSHeader has returned True the sub-coordinates are stored
\* in the order Direction, Stokes, Spectral, Linear, and world axis i and pixel
\* axis i of the system are the axis entry i of the header describes.
C21_ImportOrder ==
    (last.op = "fromFITSHeader" /\ last.ok) =>
        LET n == Len(last.header[<<"c", "type">>])
        IN  /\ nWorldAxes(cs) = n
            /\ nPixelAxes(cs) = n
            /\ \A i, j \in 1..nCoordinates(cs) :
                  i < j => ImportRank(cs.coordinates_p[i].type) < ImportRank(cs.coordinates_p[j].type)
            /\ \A i \in 0..(n - 1) :
                  DescribedByHeader(cs, last.header, IF last.oneRelative THEN 1 ELSE 0, i)

\* A header of a linear axis, a latitude, a Stokes axis and a longitude has
\* been imported.
C21_Witness ==
    /\ last.op = "fromFITSHeader"
    /\ last.ok
    /\ last.header[<<"c", "type">>] = <<"X       ", "DEC--SIN", "STOKES  ", "RA---SIN">>
    /\ nCoordinates(cs) = 3

(***************************************************************************)
(* Two threads, each with a clone of the system of its own.  A thread      *)
(* calls toWorld on a vector, which works on the clone alone, or toWorld   *)
(* on an IPosition, which copies the position into the static pix and      *)
(* hands pix to toWorld.  Unsynchronised accesses to pix are a data race;  *)
(* the outcomes here are those of the interleavings of the statements.     *)
(***************************************************************************)
Sequential == \A t \in Threads : threads[t].pc = "none"

\* CoordinateSystem::clone, once for each thread.
Fork ==
    /\ Sequential
    /\ nCoordinates(cs) > 0
    /\ threads' = [t \in Threads |-> [pc |-> "idle", clone |-> copy(cs)]]
    /\ last' = [op |-> "clone", ok |-> TRUE]
    /\ UNCHANGED <<cs, given, pix>>

\* What a call has returned.
Returned(r) == [ok |-> r.ok, world |-> r.world]

\* toWorld(world, pixel) with a Vector<Double> pixel, on the thread's clone.
CallToWorld(t, pixel) ==
    /\ threads[t].pc = "idle"
    /\ LET r == toWorld(threads[t].clone, pixel)
       IN  threads' = [threads EXCEPT ![t] =
                          [pc |-> "done", clone |-> r.cs, start |-> threads[t].clone,
                           pixel |-> pixel, result |-> Returned(r)]]
    /\ UNCHANGED <<cs, last, given, pix>>

\* toWorld(world, pixel) with an IPosition pixel is entered.
CallToWorldIPosition(t, pixel) ==
    /\ threads[t].pc = "idle"
    /\ threads' = [threads EXCEPT ![t] =
                      [pc |-> "resize", clone |-> threads[t].clone, start |-> threads[t].clone,
                       pixel |-> pixel, i |-> 0]]
    /\ UNCHANGED <<cs, last, given, pix>>

\* if (pix.nelements() != pixel.nelements()) pix.resize(pixel.nelements());
ResizePix(t) ==
    /\ threads[t].pc = "resize"
    /\ pix' = IF Len(pix) /= Len(threads[t].pixel) THEN NewVector(Len(threads[t].pixel)) ELSE pix
    /\ threads' = [threads EXCEPT ![t].pc = "fill"]
    /\ UNCHANGED <<cs, last, given>>

\* pix(i) = pixel(i)*1.0, one turn of the loop.
FillPix(t) ==
    /\ threads[t].pc = "fill"
    /\ threads[t].i < Len(threads[t].pixel)
    /\ pix' = [k \in 1..Len(pix) |->
                  IF k = threads[t].i + 1 THEN threads[t].pixel[k] ELSE pix[k]]
    /\ threads' = [threads EXCEPT ![t].i = @ + 1]
    /\ UNCHANGED <<cs, last, given>>

\* return toWorld(world, pix);
ReturnToWorldOfPix(t) ==
    /\ threads[t].pc = "fill"
    /\ threads[t].i >= Len(threads[t].pixel)
    /\ LET r == toWorld(threads[t].clone, pix)
       IN  threads' = [threads EXCEPT ![t] =
                          [pc |-> "done", clone |-> r.cs, start |-> threads[t].start,
                           pixel |-> threads[t].pixel, result |-> Returned(r)]]
    /\ UNCHANGED <<cs, last, given, pix>>

NextP ==
    \/ \E c \in CatalogueT :
           Sequential /\ TotalAxes(cs) + CoordNWorldAxes(c) <= MaxAxesT /\ AddCoordinate(c)
    \/ Fork
    \/ \E t \in Threads, pixel \in [1..nPixelAxes(cs) -> Vals] :
           CallToWorld(t, pixel)
    \/ \E t \in Threads, pixel \in [1..nPixelAxes(cs) -> Vals] :
           CallToWorldIPosition(t, pixel)
    \/ \E t \in Threads : ResizePix(t)
    \/ \E t \in Threads : FillPix(t)
    \/ \E t \in Threads : ReturnToWorldOfPix(t)

SpecP == Init /\ [][NextP]_vars

\* C22 as stated: a call a thread has run on its own clone has returned what
\* the same call returns on that clone when nothing else runs.
C22_ClonesInParallel ==
    \A t \in Threads :
        threads[t].pc = "done" =>
            threads[t].result = Returned(toWorld(threads[t].start, threads[t].pixel))

\* C23 as stated: after toWorld every sub-coordinate has been called on the
\* pixel vector gathered for it, so where its own toWorld succeeds on that
\* vector its world temporary holds the value computed from it; the same for
\* toPixel.
C23_EverySubCoordinateCalled ==
    /\ last.op = "toWorld" =>
          \A i \in 1..nCoordinates(cs) :
              LET r == CoordToWorld(cs.coordinates_p[i], cs.pixel_tmps_p[i])
              IN  r.ok => cs.world_tmps_p[i] = r.world
    /\ last.op = "toPixel" =>
          \A i \in 1..nCoordinates(cs) :
              LET r == CoordToPixel(cs.coordinates_p[i], cs.world_tmps_p[i])
              IN  r.ok => cs.pixel_tmps_p[i] = r.pixel

(***************************************************************************)
(* setLinearTransform.  The inner loop is 'for (k=0; j<ncol; k++)': its    *)
(* condition does not read k, so for a row j < ncol it never ends by its   *)
(* condition, and from k = ncol on it indexes the pixel map and the matrix *)
(* past their ends.  The call then throws (array index checking), is       *)
(* stopped by the operating system or runs on; in none of these does it    *)
(* return.  It returns when no sub-coordinate has a row 0 and a column 0.  *)
(***************************************************************************)
\* The loop over the sub-coordinates from sub-coordinate i (from zero) on.
RECURSIVE setLinearTransformFrom(_, _, _, _)
setLinearTransformFrom(s, xform, i, ok) ==
    IF i >= nCoordinates(s)
    THEN {[returned |-> TRUE, thrown |-> FALSE, ok |-> ok, cs |-> s]}
    ELSE LET tmp == s.coordinates_p[i + 1].linearTransform
             nrow == Len(tmp)
             ncol == IF nrow = 0 THEN 0 ELSE Len(tmp[1])
         IN  IF nrow > 0 /\ ncol > 0
             THEN {[returned |-> FALSE, thrown |-> thrown, ok |-> FALSE, cs |-> s] :
                      thrown \in BOOLEAN}
             ELSE setLinearTransformFrom(s, xform, i + 1, ok)

\* CoordinateSystem::setLinearTransform: the outcomes of a call.
setLinearTransform(s, xform) == setLinearTransformFrom(s, xform, 0, TRUE)

\* The matrices handed to setLinearTransform for a system of nw world and np
\* pixel axes.
XformsL(nw, np) ==
    {[i \in 1..nw |-> [j \in 1..np |-> base + 10 * i + j]] : base \in {0, 100}}

SetLinearTransform(xform) ==
    /\ \E r \in setLinearTransform(cs, xform) :
          /\ cs' = r.cs
          /\ last' = [op |-> "setLinearTransform", ok |-> r.ok, returned |-> r.returned,
                      thrown |-> r.thrown, xform |-> xform, before |-> cs]
    /\ UNCHANGED <<given, pix, threads>>

\* No setLinearTransform has been called: a call that has not returned is
\* followed by nothing.
BeforeSetLinearTransform == last.op /= "setLinearTransform"

NextL ==
    \/ \E c \in CatalogueT :
           /\ BeforeSetLinearTransform
           /\ TotalAxes(cs) + CoordNWorldAxes(c) <= MaxAxes
           /\ AddCoordinate(c)
    \/ \E wo \in Perms(nWorldAxes(cs)), po \in Perms(nPixelAxes(cs)) :
           BeforeSetLinearTransform /\ Transpose(wo, po)
    \/ \E axis \in 0..(nWorldAxes(cs) - 1) :
           BeforeSetLinearTransform /\ RemoveWorldAxis(axis, ReplValS)
    \/ \E axis \in 0..(nPixelAxes(cs) - 1) :
           BeforeSetLinearTransform /\ RemovePixelAxis(axis, ReplValS)
    \/ \E xform \in XformsL(nWorldAxes(cs), nPixelAxes(cs)) :
           BeforeSetLinearTransform /\ SetLinearTransform(xform)

SpecL == Init /\ [][NextL]_vars

\* The transform the statement gives sub-coordinate i (from one) of s.
StatedLinearTransform(s, xform, i) ==
    LET tmp == s.coordinates_p[i].linearTransform
        WM == s.world_maps_p[i]
        PM == s.pixel_maps_p[i]
    IN  [j \in 1..Len(tmp) |-> [k \in 1..Len(tmp[j]) |->
            IF WM[j] >= 0 /\ PM[k] >= 0 THEN xform[WM[j] + 1][PM[k] + 1] ELSE tmp[j][k]]]

\* C24 as stated: on a system with a sub-coordinate axis setLinearTransform
\* returns, and element (j, k) of the transform of sub-coordinate i is the
\* element (WM[i][j], PM[i][k]) of xform where both are >= 0 and what it was
\* elsewhere.
C24_SetLinearTransform ==
    (last.op = "setLinearTransform" /\ TotalAxes(last.before) >= 1) =>
        /\ last.returned
        /\ \A i \in 1..nCoordinates(cs) :
              cs.coordinates_p[i].linearTransform =
                  StatedLinearTransform(last.before, last.xform, i)

\* C25: in every reachable system removeWorldAxis(k, v) with k >= nWorldAxes()
\* and removePixelAxis(k, v) with k >= nPixelAxes() throw, k one past the end
\* included, and leave the maps and the replacement values as they were.
C25_RemoveOutOfRangeFails ==
    /\ \A k \in nWorldAxes(cs)..(nWorldAxes(cs) + 2), v \in ReplVals :
          LET r == removeWorldAxis(cs, k, v)
          IN  /\ ~r.ok
              /\ r.cs.world_maps_p = cs.world_maps_p
              /\ r.cs.pixel_maps_p = cs.pixel_maps_p
              /\ r.cs.world_replacement_values_p = cs.world_replacement_values_p
              /\ r.cs.pixel_replacement_values_p = cs.pixel_replacement_values_p
    /\ \A k \in nPixelAxes(cs)..(nPixelAxes(cs) + 2), v \in ReplVals :
          LET r == removePixelAxis(cs, k, v)
          IN  /\ ~r.ok
              /\ r.cs.world_maps_p = cs.world_maps_p
              /\ r.cs.pixel_maps_p = cs.pixel_maps_p
              /\ r.cs.world_replacement_values_p = cs.world_replacement_values_p
              /\ r.cs.pixel_replacement_values_p = cs.pixel_replacement_values_p

\* A removeWorldAxis has thrown on a system that has an exposed world axis and
\* a removed one.
C25_Witness ==
    /\ last = [op |-> "removeWorldAxis", ok |-> FALSE]
    /\ nWorldAxes(cs) >= 1
    /\ nWorldAxes(cs) < TotalAxes(cs)

\* C26 as stated: when toFITSHeader has returned True for a system whose first
\* Spectral sub-coordinate has its world axis exposed, it has called the
\* SpectralCoordinate's toFITS for that axis, whatever its index.
C26_SpectralDelegated ==
    (last.op = "toFITSHeader" /\ last.ok) =>
        LET ax == FITSAxes(last.before)
        IN  ax.specAxis >= 0 => last.toFITS = <<ax.specAxis>>

\* C30 as stated: toFITSHeader has indexed crval, crpix, cdelt, ctype and the
\* PC matrix at the world axes of the system only.
C30_ExportIndicesInRange ==
    last.op = "toFITSHeader" =>
        last.indices \subseteq 0..(nWorldAxes(last.before) - 1)

\* The Stokes values of crval + (i - crpix) * cdelt for i = 0..3, each whole
\* value looked up in the table as it is, up to the first that is not in it.
StatedStokes(crval, crpix, cdelt) ==
    LET value(i) == StokesTable(crval + (i - crpix) * cdelt)
        known == {k \in 0..4 : \A i \in 0..(k - 1) : value(i) /= 0}
        length == CHOOSE k \in known : \A k2 \in known : k2 <= k
    IN  [i \in 1..length |-> value(i - 1)]

\* C27 as stated: fromFITSHeader of a header with a Stokes axis returns False
\* when no value of the axis is in the table, and when it returns True the
\* Stokes sub-coordinate holds the values of the table for
\* crval + (i - crpix) * cdelt, i = 0..3, up to the first that is unknown.
C27_StokesDecoded ==
    (/\ last.op = "fromFITSHeader"
     /\ \A key \in {"rval", "rpix", "delt", "type"} : isDefined(last.header, <<"c", key>>)) =>
        LET k == HeaderKeywords(last.header, IF last.oneRelative THEN 1 ELSE 0, "c")
            ax == HeaderAxes(k.ctype)
            stated == StatedStokes(k.crval[ax.stokesAxis + 1], k.crpix[ax.stokesAxis + 1],
                                   k.cdelt[ax.stokesAxis + 1])
        IN  (ax.stokesAxis >= 0 /\ Len(k.crval) = Len(k.ctype)) =>
                /\ stated = << >> => ~last.ok
                /\ last.ok =>
                      \E i \in 1..nCoordinates(cs) :
                          /\ cs.coordinates_p[i].type = "STOKES"
                          /\ cs.coordinates_p[i].stokes = stated

(***************************************************************************)
(* Coordinate::doNearPixel on pairs of sub-coordinates and on every pair   *)
(* of axis selectors, with what it leaves in the error_p of the receiver.  *)
(***************************************************************************)
\* The message doNearPixel hands to set_error for axis i (counted from 1 here,
\* from 0 in the message), << >> when the axis gives it none: the units, the
\* reference value, the increment and the reference pixel have one, the rows
\* and columns of the PC matrix have not.
doNearPixelAxisError(c, other, i) ==
    IF Upcase8(c.worldAxisUnits[i]) /= Upcase8(other.worldAxisUnits[i])
    THEN <<"The Coordinates have differing axis units for axis ", i - 1>>
    ELSE IF ~near(c.referenceValue[i], other.referenceValue[i])
    THEN <<"The Coordinates have differing reference values for axis ", i - 1>>
    ELSE IF ~near(c.increment[i], other.increment[i])
    THEN <<"The Coordinates have differing increments for axis ", i - 1>>
    ELSE IF ~near(c.referencePixel[i], other.referencePixel[i])
    THEN <<"The Coordinates have differing reference pixels for axis ", i - 1>>
    ELSE << >>

\* Axis i passes every comparison of the loop of doNearPixel.
doNearPixelAxis(c, other, i) ==
    /\ doNearPixelAxisError(c, other, i) = << >>
    /\ \A j \in 1..Len(c.linearTransform[i]) :
          near(c.linearTransform[i][j], other.linearTransform[i][j])
    /\ \A j \in 1..Len(c.linearTransform[i]) :
          near(c.linearTransform[j][i], other.linearTransform[j][i])

\* Coordinate::doNearPixel: what it returns and the receiver after it, whose
\* error_p is written on the paths that call set_error.
doNearPixelCall(c, other, thisAxes, otherAxes) ==
    LET thisPC == c.linearTransform
        otherPC == other.linearTransform
        failed(errorMsg) == [returned |-> FALSE, coord |-> set_error(c, errorMsg)]
        failing == {i \in 1..CoordNPixelAxes(c) :
                       thisAxes[i] /\ otherAxes[i] /\ ~doNearPixelAxis(c, other, i)}
        first == CHOOSE i \in failing : \A i2 \in failing : i <= i2
    IN  IF c.type /= other.type
        THEN failed(<<"Coordinate types differ">>)
        ELSE IF (\A i \in DOMAIN thisAxes : ~thisAxes[i]) /\ (\A i \in DOMAIN otherAxes : ~otherAxes[i])
        THEN [returned |-> TRUE, coord |-> c]
        ELSE IF CoordNPixelAxes(c) /= CoordNPixelAxes(other)
        THEN failed(<<"Number of pixel axes differs">>)
        ELSE IF CoordNWorldAxes(c) /= CoordNWorldAxes(other)
        THEN failed(<<"Number of world axes differs">>)
        ELSE IF Len(thisPC) /= Len(otherPC)
        THEN failed(<<"PC matrices have different numbers of rows">>)
        ELSE IF Len(thisPC) > 0 /\ Len(thisPC[1]) /= Len(otherPC[1])
        THEN failed(<<"PC matrices have different numbers of columns">>)
        ELSE IF failing = {}
        THEN [returned |-> TRUE, coord |-> c]
        ELSE IF doNearPixelAxisError(c, other, first) /= << >>
        THEN failed(doNearPixelAxisError(c, other, first))
        ELSE [returned |-> FALSE, coord |-> c]

\* LinearCoordinates of one axis, of two axes with the axes exchanged by the
\* transform, and of two axes in other units.
LinearOneAxis == LinearCoordinate(<<"x">>, <<"km">>, <<0>>, <<1>>, << <<1>> >>, <<0>>)

LinearExchanged == [Linear EXCEPT !.linearTransform = << <<0, 1>>, <<1, 0>> >>]

LinearMetres == [Linear EXCEPT !.worldAxisUnits = <<"m", "km">>]

\* The sub-coordinates compared; the receiver may hold the message of an
\* earlier failure.
CoordinatesN ==
    CatalogueT \cup {LinearImage, LinearOneAxis, LinearExchanged, LinearMetres}

ReceiversN ==
    CoordinatesN \cup {set_error(c, <<"Pixel out of range">>) : c \in CoordinatesN}

DoNearPixel(c, other, thisAxes, otherAxes) ==
    /\ LET r == doNearPixelCall(c, other, thisAxes, otherAxes)
       IN  last' = [op |-> "doNearPixel", ok |-> r.returned, coord |-> r.coord,
                    c |-> c, other |-> other, thisAxes |-> thisAxes, otherAxes |-> otherAxes]
    /\ UNCHANGED <<cs, given, pix, threads>>

NextN ==
    \E c \in ReceiversN, other \in CoordinatesN :
        \E thisAxes \in [1..CoordNPixelAxes(c) -> BOOLEAN],
           otherAxes \in [1..CoordNPixelAxes(other) -> BOOLEAN] :
            DoNearPixel(c, other, thisAxes, otherAxes)

SpecN == Init /\ [][NextN]_vars

\* The messages of doNearPixel.
NearPixelMessages ==
    {<<"Coordinate types differ">>, <<"Number of pixel axes differs">>,
     <<"Number of world axes differs">>, <<"PC matrices have different numbers of rows">>,
     <<"PC matrices have different numbers of columns">>}
        \cup {<<text, i>> :
                 text \in {"The Coordinates have differing axis units for axis ",
                           "The Coordinates have differing reference values for axis ",
                           "The Coordinates have differing increments for axis ",
                           "The Coordinates have differing reference pixels for axis "},
                 i \in 0..1}

\* C28 as stated: doNearPixel returns False for two sub-coordinates that
\* differ in type, in the number of pixel axes, in the number of world axes
\* or in the shape of the linear transform, whatever the axis selectors; and
\* whenever it returns False it has set the error_p of the receiver to one of
\* its messages.
C28_NearPixelExplains ==
    last.op = "doNearPixel" =>
        /\ (\/ last.c.type /= last.other.type
            \/ CoordNPixelAxes(last.c) /= CoordNPixelAxes(last.other)
            \/ CoordNWorldAxes(last.c) /= CoordNWorldAxes(last.other)
            \/ Len(last.c.linearTransform) /= Len(last.other.linearTransform)) => ~last.ok
        /\ ~last.ok => last.coord.error_p \in NearPixelMessages

\* doNearPixelCall returns what doNearPixel returns.
NearPixelAgree ==
    last.op = "doNearPixel" =>
        last.ok = doNearPixel(last.c, last.other, last.thisAxes, last.otherAxes)

\* C29 as stated: the transpose order fromFITSHeader computes for a header
\* that has passed its checks is a permutation of 0..n-1, and the transpose
\* at its end does not fail.
C29_OrderIsPermutation ==
    (last.op = "fromFITSHeader" /\ last.order /= << >>) =>
        LET n == Len(last.header[<<"c", "type">>])
        IN  /\ Len(last.order) = n
            /\ {last.order[i] : i \in 1..n} = 0..(n - 1)
            /\ ~last.thrown
            /\ last.ok

====
